---- MODULE Spec2Model ----
(***************************************************************************)
(* A model of the storage drivers of @amirrivand/nestjs-file-storage:      *)
(* the Buffer, Local, S3 and FTP drivers, the Scoped and ReadOnly wrapper  *)
(* drivers, the local temporary-link table, the timed-expiration sweep,    *)
(* the Google Drive driver, the drivers' calls request by request, and the *)
(* sessions of the FTP and SFTP drivers.                                   *)
(*                                                                         *)
(* A path is a sequence of one-character strings, so that the regular      *)
(* expressions and the path normalisation of the code act on it as they do *)
(* on a JavaScript string.  A stored content is a sequence of bytes.       *)
(***************************************************************************)
EXTENDS Integers, Sequences, FiniteSets, TLC

VARIABLES
    kind,       \* the backend the disk was constructed with
    files,      \* the backend's objects: resolved key -> bytes
    dirs,       \* the directories that exist on a hierarchical backend
    meta,       \* the recorded expiries: sidecar / tag / index key -> epoch ms
    tempLinks,  \* LocalStorageDriver.tempLinks: token -> entry
    issued,     \* history: every token ever issued, with its instant of issue
    now,        \* Date.now(), in milliseconds
    last,       \* history: the operation that ran last, with its result
    run,        \* caller -> the call it has in flight, request by request
    sessions,   \* FTP/SFTP client -> the call that made it and its state
    disks,      \* FileStorageService.disks: disk name -> StorageDisk
    defaultDisk, \* FileStorageService.defaultDisk
    stores      \* what each backend of the service's drivers holds

vars == <<kind, files, dirs, meta, tempLinks, issued, now, last, run, sessions,
          disks, defaultDisk, stores>>

----------------------------------------------------------------------------
(* Bounds of the model. *)

\* Longest stored content, in bytes, that an operation may produce.
MaxLen == 2
\* Number of clock ticks a behaviour may take.
MaxTicks == 3
\* Number of temporary links a behaviour may issue.
MaxTokens == 1

\* One clock tick, in milliseconds.
TickMs == 500

----------------------------------------------------------------------------
(* Sequences *)

Last(s) == s[Len(s)]
Front(s) == SubSeq(s, 1, Len(s) - 1)

\* String.prototype.startsWith
startsWith(s, p) == Len(p) <= Len(s) /\ SubSeq(s, 1, Len(p)) = p

----------------------------------------------------------------------------
(* Contents: Buffer | string *)

\* Buffer.from(string): the UTF-8 encoding of a sequence of code points.
RECURSIVE Utf8Encode(_)
Utf8Encode(cps) ==
    IF cps = <<>> THEN <<>>
    ELSE LET c == Head(cps) IN
         (IF c < 128 THEN <<c>>
          ELSE IF c < 2048 THEN <<192 + (c \div 64), 128 + (c % 64)>>
          ELSE <<224 + (c \div 4096), 128 + ((c \div 64) % 64), 128 + (c % 64)>>)
         \o Utf8Encode(Tail(cps))

IsCont(b) == b >= 128 /\ b <= 191

\* Buffer.prototype.toString(): UTF-8 decoding, an ill-formed byte (or
\* truncated sequence) becoming U+FFFD.
RECURSIVE Utf8Decode(_)
Utf8Decode(bs) ==
    IF bs = <<>> THEN <<>>
    ELSE LET b == Head(bs)
             n == Len(bs)
         IN IF b < 128 THEN <<b>> \o Utf8Decode(Tail(bs))
            ELSE IF b >= 194 /\ b <= 223 /\ n >= 2 /\ IsCont(bs[2])
                 THEN <<(b - 192) * 64 + (bs[2] - 128)>> \o Utf8Decode(SubSeq(bs, 3, n))
            ELSE IF b >= 224 /\ b <= 239 /\ n >= 3 /\ IsCont(bs[2]) /\ IsCont(bs[3])
                 THEN <<(b - 224) * 4096 + (bs[2] - 128) * 64 + (bs[3] - 128)>>
                      \o Utf8Decode(SubSeq(bs, 4, n))
            ELSE IF b >= 224 /\ b <= 239 /\ n >= 2 /\ IsCont(bs[2])
                 THEN <<65533>> \o Utf8Decode(SubSeq(bs, 3, n))
            ELSE <<65533>> \o Utf8Decode(Tail(bs))

\* A write that takes the code points of a string for its bytes (latin1).
ToBuffer_Latin1(c) == c.data

\* Buffer.isBuffer(content) ? content : Buffer.from(content)
ToBuffer(c) == IF c.type = "buffer" THEN c.data ELSE Utf8Encode(c.data)

\* The contents a caller passes: the text "é" and the one-byte buffer 0xFF.
TextE == [type |-> "string", data |-> <<233>>]
ByteFF == [type |-> "buffer", data |-> <<255>>]
Contents == {TextE, ByteFF}
NoContent == [type |-> "none", data |-> <<>>]

----------------------------------------------------------------------------
(* Paths *)

RECURSIVE StripLeadingSlashes(_)
\* s.replace(/^\/+/, '')
StripLeadingSlashes(s) ==
    IF s # <<>> /\ Head(s) = "/" THEN StripLeadingSlashes(Tail(s)) ELSE s

RECURSIVE StripTrailingSlashes(_)
\* s.replace(/\/+$/, '')
StripTrailingSlashes(s) ==
    IF s # <<>> /\ Last(s) = "/" THEN StripTrailingSlashes(Front(s)) ELSE s

RECURSIVE SplitAcc(_, _, _)
SplitAcc(s, cur, acc) ==
    IF s = <<>> THEN Append(acc, cur)
    ELSE IF Head(s) = "/" THEN SplitAcc(Tail(s), <<>>, Append(acc, cur))
    ELSE SplitAcc(Tail(s), Append(cur, Head(s)), acc)

\* s.split('/')
Split(s) == SplitAcc(s, <<>>, <<>>)

RECURSIVE Join(_)
\* segments.join('/')
Join(segs) ==
    IF segs = <<>> THEN <<>>
    ELSE IF Len(segs) = 1 THEN Head(segs)
    ELSE Head(segs) \o <<"/">> \o Join(Tail(segs))

DotDot == <<".", ".">>

RECURSIVE NormSegs(_, _, _)
\* The segment walk of path.normalize: empty and '.' segments are dropped, a
\* '..' removes the segment before it, and a '..' with nothing before it is
\* kept in a relative path and dropped in an absolute one.
NormSegs(segs, stack, abs) ==
    IF segs = <<>> THEN stack
    ELSE LET h == Head(segs) IN
         IF h = <<>> \/ h = <<".">> THEN NormSegs(Tail(segs), stack, abs)
         ELSE IF h = DotDot
              THEN IF stack # <<>> /\ Last(stack) # DotDot
                   THEN NormSegs(Tail(segs), Front(stack), abs)
                   ELSE IF abs THEN NormSegs(Tail(segs), stack, abs)
                        ELSE NormSegs(Tail(segs), Append(stack, h), abs)
         ELSE NormSegs(Tail(segs), Append(stack, h), abs)

\* LocalStorageDriver.fullPath: path.join(root, relPath), as the location
\* relative to the root (a leading '..' leaves the root).
fullPath(relPath) == Join(NormSegs(Split(relPath), <<>>, FALSE))

\* FTPStorageDriver.normalizeRemotePath: path.posix.normalize, then the
\* leading slashes removed; the session has changed into the root.
normalizeRemotePath(relPath) ==
    Join(NormSegs(Split(relPath), <<>>, relPath # <<>> /\ Head(relPath) = "/"))

\* path.dirname of a normalised relative path, as a normalised path ('' for '.')
dirname(p) == Join(Front(Split(p)))

\* A wrapper that hands the caller's path on as it is.
scoped_Unprefixed(prefix, path) == path

\* ScopedStorageDriver.scoped
scoped(prefix, path) ==
    IF prefix # <<>>
    THEN StripTrailingSlashes(prefix) \o <<"/">> \o StripLeadingSlashes(path)
    ELSE path

Kinds == {"buffer", "local", "s3", "ftp"}
Hierarchical == {"local", "ftp"}

\* The place in the backend that a driver of kind k reads or writes for path p.
Resolve(k, p) ==
    IF k = "local" THEN fullPath(p)
    ELSE IF k = "ftp" THEN normalizeRemotePath(p)
    ELSE p

----------------------------------------------------------------------------
(* The state of one disk, and the result of one driver call *)

NoPath == <<>>

EmptyFn == [x \in {} |-> <<>>]

SetKey(f, k, v) == [x \in (DOMAIN f) \cup {k} |-> IF x = k THEN v ELSE f[x]]
DelKey(f, k) == [x \in (DOMAIN f) \ {k} |-> f[x]]

\* A call that resolved, leaving the disk in state s.
Ok(s) ==
    [st |-> s, status |-> "ok", bytes |-> <<>>, flag |-> FALSE, list |-> {},
     handed |-> {}, count |-> 0, deleted |-> {}]
OkBytes(s, b) == [Ok(s) EXCEPT !.bytes = b]
OkFlag(s, v) == [Ok(s) EXCEPT !.flag = v]
OkList(s, l) == [Ok(s) EXCEPT !.list = l]
\* A call that rejected (or threw) with error e, leaving the disk in state s.
Err(s, e) == [Ok(s) EXCEPT !.status = e]
\* The result r of a wrapper's call, with the paths it handed to the driver it wraps.
Handing(h, r) == [r EXCEPT !.handed = h]

Has(s, k) == k \in DOMAIN s.files

\* The proper ancestor directories of a normalised key.
Ancestors(k) ==
    LET segs == Split(k) IN {Join(SubSeq(segs, 1, i)) : i \in 1..(Len(segs) - 1)}

\* fs.mkdir(dir, { recursive: true }) / client.ensureDir(dir), for the parent of k
EnsureDirOf(s, k) == [s EXCEPT !.dirs = @ \cup Ancestors(k)]

\* Whether the directory a normalised key lies in exists ('' is the root).
ParentExists(s, k) == dirname(k) = <<>> \/ dirname(k) \in s.dirs

----------------------------------------------------------------------------
(* BufferStorageDriver: a Map from the path as given to its content *)

Buffer_put(s, p, c) == Ok([s EXCEPT !.files = SetKey(@, p, ToBuffer(c))])

Buffer_get(s, p) == IF Has(s, p) THEN OkBytes(s, s.files[p]) ELSE Err(s, "NotFound")

Buffer_delete(s, p) == Ok([s EXCEPT !.files = DelKey(@, p)])

Buffer_exists(s, p) == OkFlag(s, Has(s, p))

Buffer_copy(s, src, dest) ==
    IF Has(s, src)
    THEN Ok([s EXCEPT !.files = SetKey(@, dest, s.files[src])])
    ELSE Err(s, "NotFound")

\* await this.copy(src, dest); await this.delete(src);
Buffer_move(s, src, dest) ==
    LET r == Buffer_copy(s, src, dest) IN
    IF r.status = "ok" THEN Buffer_delete(r.st, src) ELSE r

Buffer_createReadStream(s, p) ==
    IF Has(s, p) THEN OkBytes(s, s.files[p]) ELSE Err(s, "NotFound")

Buffer_prepend(s, p, c) ==
    Ok([s EXCEPT !.files =
        SetKey(@, p, IF Has(s, p) THEN ToBuffer(c) \o s.files[p] ELSE ToBuffer(c))])

Buffer_append(s, p, c) ==
    Ok([s EXCEPT !.files =
        SetKey(@, p, IF Has(s, p) THEN s.files[p] \o ToBuffer(c) ELSE ToBuffer(c))])

Buffer_listFiles(s, dir, recursive) ==
    OkList(s, {k \in DOMAIN s.files : startsWith(k, dir)})

----------------------------------------------------------------------------
(* LocalStorageDriver: files under a root directory of the file system *)

\* The name of the sidecar file of a key: key + '.meta.json'.
MetaSuffix == <<".meta.json">>

\* The files that exist under the root: the objects and the sidecar files.
Local_physical(s) == (DOMAIN s.files) \cup {k \o MetaSuffix : k \in DOMAIN s.meta}

Local_put(s, relPath, c) ==
    LET filePath == fullPath(relPath)
        s1 == EnsureDirOf(s, filePath)
    IN IF filePath \in s1.dirs \/ filePath = <<>>
       THEN Err(s1, "EISDIR")
       ELSE Ok([s1 EXCEPT !.files = SetKey(@, filePath, ToBuffer(c))])

Local_get(s, relPath) ==
    IF Has(s, fullPath(relPath))
    THEN OkBytes(s, s.files[fullPath(relPath)])
    ELSE Err(s, "NotFound")

\* fs.unlink
Local_delete(s, relPath) ==
    IF Has(s, fullPath(relPath))
    THEN Ok([s EXCEPT !.files = DelKey(@, fullPath(relPath))])
    ELSE Err(s, "NotFound")

\* fs.access(F_OK): true for a file and for a directory
Local_exists(s, relPath) ==
    OkFlag(s, \/ Has(s, fullPath(relPath))
              \/ fullPath(relPath) \in s.dirs
              \/ fullPath(relPath) = <<>>)

\* fs.copyFile: the source must be a file and the destination's directory
\* must exist; copying a file onto itself changes nothing.
Local_copy(s, src, dest) ==
    LET a == fullPath(src)
        b == fullPath(dest)
    IN IF ~Has(s, a) \/ ~ParentExists(s, b) THEN Err(s, "NotFound")
       ELSE IF b \in s.dirs \/ b = <<>> THEN Err(s, "EISDIR")
       ELSE Ok([s EXCEPT !.files = SetKey(@, b, s.files[a])])

\* fs.rename
Local_move(s, src, dest) ==
    LET a == fullPath(src)
        b == fullPath(dest)
    IN IF ~Has(s, a) \/ ~ParentExists(s, b) THEN Err(s, "NotFound")
       ELSE IF b \in s.dirs \/ b = <<>> THEN Err(s, "EISDIR")
       ELSE IF a = b THEN Ok(s)
       ELSE Ok([s EXCEPT !.files = SetKey(DelKey(@, a), b, s.files[a])])

Local_createReadStream(s, relPath) ==
    IF Has(s, fullPath(relPath))
    THEN OkBytes(s, s.files[fullPath(relPath)])
    ELSE Err(s, "NotFound")

\* existing = (await fs.readFile(filePath)).toString(), '' when that fails;
\* then fs.writeFile(filePath, content ++ existing)
Local_prepend(s, relPath, c) ==
    LET filePath == fullPath(relPath)
        existing == IF Has(s, filePath) THEN Utf8Decode(s.files[filePath]) ELSE <<>>
    IN IF ~ParentExists(s, filePath) THEN Err(s, "NotFound")
       ELSE IF filePath \in s.dirs \/ filePath = <<>> THEN Err(s, "EISDIR")
       ELSE Ok([s EXCEPT !.files =
                    SetKey(@, filePath, ToBuffer(c) \o Utf8Encode(existing))])

\* fs.appendFile
Local_append(s, relPath, c) ==
    LET filePath == fullPath(relPath)
    IN IF ~ParentExists(s, filePath) THEN Err(s, "NotFound")
       ELSE IF filePath \in s.dirs \/ filePath = <<>> THEN Err(s, "EISDIR")
       ELSE Ok([s EXCEPT !.files =
                    SetKey(@, filePath,
                           IF Has(s, filePath) THEN s.files[filePath] \o ToBuffer(c)
                           ELSE ToBuffer(c))])

\* path.join(a, b)
pathJoin(a, b) == fullPath(a \o <<"/">> \o b)

RECURSIVE Local_walk(_, _, _)
\* The loop of listFiles over fs.readdir(dirPath): a file is reported as
\* path.join(dir, name); a directory's listing is reported with the
\* directory's name joined in front of each path that listing returned.
Local_walk(s, dir, recursive) ==
    LET dirPath == fullPath(dir)
        fileNames == {Last(Split(k)) : k \in {f \in Local_physical(s) : dirname(f) = dirPath}}
        dirNames == {Last(Split(k)) : k \in {d \in s.dirs : dirname(d) = dirPath}}
    IN {pathJoin(dir, n) : n \in fileNames}
       \cup (IF recursive
             THEN UNION {{pathJoin(n, f) : f \in Local_walk(s, pathJoin(dirPath, n), TRUE)}
                         : n \in dirNames}
             ELSE {})

Local_listFiles(s, dir, recursive) ==
    IF fullPath(dir) = <<>> \/ fullPath(dir) \in s.dirs
    THEN OkList(s, Local_walk(s, dir, recursive))
    ELSE Err(s, "NotFound")

----------------------------------------------------------------------------
(* S3StorageDriver: a bucket, a flat map from the key as given to its body; *)
(* s.meta holds the 'expiresAt' tag of the keys that carry one              *)

\* PutObject replaces the object, its tag set included.
S3_put(s, path, c) ==
    Ok([s EXCEPT !.files = SetKey(@, path, ToBuffer(c)), !.meta = DelKey(@, path)])

S3_get(s, path) ==
    IF Has(s, path) THEN OkBytes(s, s.files[path]) ELSE Err(s, "NotFound")

\* DeleteObject succeeds whether or not the key exists.
S3_delete(s, path) ==
    Ok([s EXCEPT !.files = DelKey(@, path), !.meta = DelKey(@, path)])

S3_exists(s, path) == OkFlag(s, Has(s, path))

\* CopyObject: a server-side copy, the tag set copied with the body; a copy of
\* an object onto itself with nothing changed is rejected by the service.
S3_copy(s, src, dest) ==
    IF ~Has(s, src) THEN Err(s, "NotFound")
    ELSE IF src = dest THEN Err(s, "InvalidRequest")
    ELSE Ok([s EXCEPT !.files = SetKey(@, dest, s.files[src]),
                      !.meta = IF src \in DOMAIN s.meta
                               THEN SetKey(@, dest, s.meta[src])
                               ELSE DelKey(@, dest)])

\* await this.copy(src, dest); await this.delete(src);
S3_move(s, src, dest) ==
    LET r == S3_copy(s, src, dest) IN
    IF r.status = "ok" THEN S3_delete(r.st, src) ELSE r

S3_createReadStream(s, path) ==
    IF Has(s, path) THEN OkBytes(s, s.files[path]) ELSE Err(s, "NotFound")

\* existing = await this.get(path), empty when that fails; then put
S3_prepend(s, path, c) ==
    LET r == S3_get(s, path)
        existing == IF r.status = "ok" THEN r.bytes ELSE <<>>
    IN S3_put(s, path, [type |-> "buffer", data |-> ToBuffer(c) \o existing])

S3_append(s, path, c) ==
    LET r == S3_get(s, path)
        existing == IF r.status = "ok" THEN r.bytes ELSE <<>>
    IN S3_put(s, path, [type |-> "buffer", data |-> existing \o ToBuffer(c)])

\* ListObjectsV2 with Prefix: every key that starts with the prefix.
S3_listFiles(s, prefix, recursive) ==
    OkList(s, {k \in DOMAIN s.files : startsWith(k, prefix)})

----------------------------------------------------------------------------
(* FTPStorageDriver: files on the server, under the configured root *)

FTP_put(s, relPath, c) ==
    LET remotePath == normalizeRemotePath(relPath)
        s1 == EnsureDirOf(s, remotePath)
    IN IF remotePath \in s1.dirs \/ remotePath = <<>>
       THEN Err(s1, "EISDIR")
       ELSE Ok([s1 EXCEPT !.files = SetKey(@, remotePath, ToBuffer(c))])

FTP_get(s, relPath) ==
    IF Has(s, normalizeRemotePath(relPath))
    THEN OkBytes(s, s.files[normalizeRemotePath(relPath)])
    ELSE Err(s, "NotFound")

FTP_delete(s, relPath) ==
    IF Has(s, normalizeRemotePath(relPath))
    THEN Ok([s EXCEPT !.files = DelKey(@, normalizeRemotePath(relPath))])
    ELSE Err(s, "NotFound")

\* client.list(dirname) has an entry named basename: a file or a directory
FTP_exists(s, relPath) ==
    OkFlag(s, relPath # <<>>
              /\ (Has(s, normalizeRemotePath(relPath))
                  \/ normalizeRemotePath(relPath) \in s.dirs))

\* const data = await this.get(src); await this.put(dest, data);
FTP_copy(s, src, dest) ==
    LET r == FTP_get(s, src) IN
    IF r.status = "ok" THEN FTP_put(s, dest, [type |-> "buffer", data |-> r.bytes])
    ELSE Err(s, r.status)

\* client.ensureDir(destDir), then client.rename(srcPath, destPath)
FTP_move(s, src, dest) ==
    LET a == normalizeRemotePath(src)
        b == normalizeRemotePath(dest)
        s1 == EnsureDirOf(s, b)
    IN IF ~Has(s1, a) THEN Err(s1, "NotFound")
       ELSE IF b \in s1.dirs \/ b = <<>> THEN Err(s1, "EISDIR")
       ELSE IF a = b THEN Ok(s1)
       ELSE Ok([s1 EXCEPT !.files = SetKey(DelKey(@, a), b, s.files[a])])

FTP_createReadStream(s, relPath) ==
    IF Has(s, normalizeRemotePath(relPath))
    THEN OkBytes(s, s.files[normalizeRemotePath(relPath)])
    ELSE Err(s, "NotFound")

\* existing = await this.get(relPath), empty when that fails; a Buffer is
\* concatenated, a string is joined to existing.toString() and re-encoded.
FTP_prepend(s, relPath, c) ==
    LET r == FTP_get(s, relPath)
        existing == IF r.status = "ok" THEN r.bytes ELSE <<>>
        newContent == IF c.type = "buffer" THEN c.data \o existing
                      ELSE Utf8Encode(c.data \o Utf8Decode(existing))
    IN FTP_put(s, relPath, [type |-> "buffer", data |-> newContent])

FTP_append(s, relPath, c) ==
    LET r == FTP_get(s, relPath)
        existing == IF r.status = "ok" THEN r.bytes ELSE <<>>
        newContent == IF c.type = "buffer" THEN existing \o c.data
                      ELSE Utf8Encode(Utf8Decode(existing) \o c.data)
    IN FTP_put(s, relPath, [type |-> "buffer", data |-> newContent])

RECURSIVE FTP_walk(_, _, _)
\* walk(current): a file is reported as path.posix.join(current, name)
FTP_walk(s, current, recursive) ==
    LET fileNames == {Last(Split(k)) : k \in {f \in DOMAIN s.files : dirname(f) = current}}
        dirNames == {Last(Split(k)) : k \in {d \in s.dirs : dirname(d) = current}}
    IN {pathJoin(current, n) : n \in fileNames}
       \cup (IF recursive
             THEN UNION {FTP_walk(s, pathJoin(current, n), TRUE) : n \in dirNames}
             ELSE {})

FTP_listFiles(s, dir, recursive) ==
    IF normalizeRemotePath(dir) = <<>> \/ normalizeRemotePath(dir) \in s.dirs
    THEN OkList(s, FTP_walk(s, normalizeRemotePath(dir), recursive))
    ELSE Err(s, "NotFound")

----------------------------------------------------------------------------
(* StorageDriver: the call of a method on the driver a disk was built with *)

Driver_put(k, s, p, c) ==
    CASE k = "buffer" -> Buffer_put(s, p, c)
      [] k = "local" -> Local_put(s, p, c)
      [] k = "s3" -> S3_put(s, p, c)
      [] k = "ftp" -> FTP_put(s, p, c)

Driver_get(k, s, p) ==
    CASE k = "buffer" -> Buffer_get(s, p)
      [] k = "local" -> Local_get(s, p)
      [] k = "s3" -> S3_get(s, p)
      [] k = "ftp" -> FTP_get(s, p)

Driver_delete(k, s, p) ==
    CASE k = "buffer" -> Buffer_delete(s, p)
      [] k = "local" -> Local_delete(s, p)
      [] k = "s3" -> S3_delete(s, p)
      [] k = "ftp" -> FTP_delete(s, p)

Driver_exists(k, s, p) ==
    CASE k = "buffer" -> Buffer_exists(s, p)
      [] k = "local" -> Local_exists(s, p)
      [] k = "s3" -> S3_exists(s, p)
      [] k = "ftp" -> FTP_exists(s, p)

Driver_copy(k, s, src, dest) ==
    CASE k = "buffer" -> Buffer_copy(s, src, dest)
      [] k = "local" -> Local_copy(s, src, dest)
      [] k = "s3" -> S3_copy(s, src, dest)
      [] k = "ftp" -> FTP_copy(s, src, dest)

Driver_move(k, s, src, dest) ==
    CASE k = "buffer" -> Buffer_move(s, src, dest)
      [] k = "local" -> Local_move(s, src, dest)
      [] k = "s3" -> S3_move(s, src, dest)
      [] k = "ftp" -> FTP_move(s, src, dest)

Driver_createReadStream(k, s, p) ==
    CASE k = "buffer" -> Buffer_createReadStream(s, p)
      [] k = "local" -> Local_createReadStream(s, p)
      [] k = "s3" -> S3_createReadStream(s, p)
      [] k = "ftp" -> FTP_createReadStream(s, p)

Driver_prepend(k, s, p, c) ==
    CASE k = "buffer" -> Buffer_prepend(s, p, c)
      [] k = "local" -> Local_prepend(s, p, c)
      [] k = "s3" -> S3_prepend(s, p, c)
      [] k = "ftp" -> FTP_prepend(s, p, c)

Driver_append(k, s, p, c) ==
    CASE k = "buffer" -> Buffer_append(s, p, c)
      [] k = "local" -> Local_append(s, p, c)
      [] k = "s3" -> S3_append(s, p, c)
      [] k = "ftp" -> FTP_append(s, p, c)

Driver_listFiles(k, s, dir, recursive) ==
    CASE k = "buffer" -> Buffer_listFiles(s, dir, recursive)
      [] k = "local" -> Local_listFiles(s, dir, recursive)
      [] k = "s3" -> S3_listFiles(s, dir, recursive)
      [] k = "ftp" -> FTP_listFiles(s, dir, recursive)

----------------------------------------------------------------------------
(* ScopedStorageDriver: every path is prefixed, then handed to the driver *)

\* config.prefix of the scoped disk
ScopedPrefix == <<"x">>

Scoped_put(k, s, path, c) ==
    Handing({scoped(ScopedPrefix, path)}, Driver_put(k, s, scoped(ScopedPrefix, path), c))

Scoped_get(k, s, path) ==
    Handing({scoped(ScopedPrefix, path)}, Driver_get(k, s, scoped(ScopedPrefix, path)))

Scoped_delete(k, s, path) ==
    Handing({scoped(ScopedPrefix, path)}, Driver_delete(k, s, scoped(ScopedPrefix, path)))

Scoped_exists(k, s, path) ==
    Handing({scoped(ScopedPrefix, path)}, Driver_exists(k, s, scoped(ScopedPrefix, path)))

Scoped_copy(k, s, src, dest) ==
    Handing({scoped(ScopedPrefix, src), scoped(ScopedPrefix, dest)},
            Driver_copy(k, s, scoped(ScopedPrefix, src), scoped(ScopedPrefix, dest)))

Scoped_move(k, s, src, dest) ==
    Handing({scoped(ScopedPrefix, src), scoped(ScopedPrefix, dest)},
            Driver_move(k, s, scoped(ScopedPrefix, src), scoped(ScopedPrefix, dest)))

Scoped_createReadStream(k, s, path) ==
    Handing({scoped(ScopedPrefix, path)},
            Driver_createReadStream(k, s, scoped(ScopedPrefix, path)))

Scoped_prepend(k, s, path, c) ==
    Handing({scoped(ScopedPrefix, path)},
            Driver_prepend(k, s, scoped(ScopedPrefix, path), c))

Scoped_append(k, s, path, c) ==
    Handing({scoped(ScopedPrefix, path)},
            Driver_append(k, s, scoped(ScopedPrefix, path), c))

Scoped_listFiles(k, s, dir, recursive) ==
    Handing({scoped(ScopedPrefix, dir)},
            Driver_listFiles(k, s, scoped(ScopedPrefix, dir), recursive))

----------------------------------------------------------------------------
(* ReadOnlyStorageDriver: write calls throw, read calls are delegated *)

throwReadOnly(s) == Err(s, "ReadOnly")

\* A put that reaches the wrapped driver.
ReadOnly_put_Delegating(k, s, path, c) == Handing({path}, Driver_put(k, s, path, c))

ReadOnly_put(k, s, path, c) == throwReadOnly(s)
ReadOnly_delete(k, s, path) == throwReadOnly(s)
ReadOnly_copy(k, s, src, dest) == throwReadOnly(s)
ReadOnly_move(k, s, src, dest) == throwReadOnly(s)
ReadOnly_append(k, s, path, c) == throwReadOnly(s)
ReadOnly_prepend(k, s, path, c) == throwReadOnly(s)
ReadOnly_makeDirectory(k, s, path) == throwReadOnly(s)
ReadOnly_deleteDirectory(k, s, path) == throwReadOnly(s)
ReadOnly_setVisibility(k, s, path) == throwReadOnly(s)

ReadOnly_get(k, s, path) == Handing({path}, Driver_get(k, s, path))
ReadOnly_exists(k, s, path) == Handing({path}, Driver_exists(k, s, path))
ReadOnly_listFiles(k, s, dir, recursive) ==
    Handing({dir}, Driver_listFiles(k, s, dir, recursive))
ReadOnly_createReadStream(k, s, path) ==
    Handing({path}, Driver_createReadStream(k, s, path))

----------------------------------------------------------------------------
(* A caller's call: on the disk itself or through one of its wrappers *)

\* The result of a call made through via: direct is the driver's own result,
\* scopedr the Scoped wrapper's, readonly the ReadOnly wrapper's.
Call(via, direct, scopedr, readonly) ==
    CASE via = "direct" -> direct
      [] via = "scoped" -> scopedr
      [] via = "readonly" -> readonly

----------------------------------------------------------------------------
(* The state machine: one action per operation *)

\* The disk as the drivers see it.
D == [files |-> files, dirs |-> dirs, meta |-> meta]

\* The options of putTimed: an expiresAt date (its getTime() in ms) when
\* hasDate, and a ttl in seconds; a ttl that is not given and a ttl of 0 are
\* both falsy and are both written 0.
NoOpts == [hasDate |-> FALSE, date |-> 0, ttl |-> 0]

\* No request passed to validateTempToken; a request carries the remote
\* address of its socket and its x-device-id header ("" when it has none).
NoReq == [present |-> FALSE, ip |-> "", deviceId |-> ""]

\* The null that validateTempToken returns, and the path it returns.
Invalid == [valid |-> FALSE, path |-> NoPath]
Valid(path) == [valid |-> TRUE, path |-> path]

NoOp ==
    [op |-> "none", via |-> "direct", path |-> NoPath, dest |-> NoPath,
     input |-> NoContent, opts |-> NoOpts, handed |-> {}, status |-> "ok",
     bytes |-> <<>>, flag |-> FALSE, list |-> {}, at |-> 0,
     count |-> 0, deleted |-> {}, token |-> 0, req |-> NoReq, result |-> Invalid,
     fault |-> "none", disk |-> "",
     upload |-> <<>>]

\* The operation op, called through via with options opts, ended with result r.
CommitOpts(op, via, path, dest, input, opts, r) ==
    /\ \A k \in DOMAIN r.st.files : Len(r.st.files[k]) <= MaxLen
    /\ files' = r.st.files
    /\ dirs' = r.st.dirs
    /\ meta' = r.st.meta
    /\ last' = [NoOp EXCEPT !.op = op, !.via = via, !.path = path, !.dest = dest,
                            !.input = input, !.opts = opts, !.handed = r.handed,
                            !.status = r.status, !.bytes = r.bytes,
                            !.flag = r.flag, !.list = r.list, !.at = now,
                            !.count = r.count, !.deleted = r.deleted]
    /\ UNCHANGED <<kind, tempLinks, issued, now, run, sessions, disks, defaultDisk, stores>>

Commit(op, via, path, dest, input, r) ==
    CommitOpts(op, via, path, dest, input, NoOpts, r)

Put(via, p, c) ==
    Commit("put", via, p, NoPath, c,
           Call(via, Driver_put(kind, D, p, c), Scoped_put(kind, D, p, c),
                ReadOnly_put(kind, D, p, c)))
Get(via, p) ==
    Commit("get", via, p, NoPath, NoContent,
           Call(via, Driver_get(kind, D, p), Scoped_get(kind, D, p),
                ReadOnly_get(kind, D, p)))
Delete(via, p) ==
    Commit("delete", via, p, NoPath, NoContent,
           Call(via, Driver_delete(kind, D, p), Scoped_delete(kind, D, p),
                ReadOnly_delete(kind, D, p)))
Exists(via, p) ==
    Commit("exists", via, p, NoPath, NoContent,
           Call(via, Driver_exists(kind, D, p), Scoped_exists(kind, D, p),
                ReadOnly_exists(kind, D, p)))
Copy(via, a, b) ==
    Commit("copy", via, a, b, NoContent,
           Call(via, Driver_copy(kind, D, a, b), Scoped_copy(kind, D, a, b),
                ReadOnly_copy(kind, D, a, b)))
Move(via, a, b) ==
    Commit("move", via, a, b, NoContent,
           Call(via, Driver_move(kind, D, a, b), Scoped_move(kind, D, a, b),
                ReadOnly_move(kind, D, a, b)))
CreateReadStream(via, p) ==
    Commit("createReadStream", via, p, NoPath, NoContent,
           Call(via, Driver_createReadStream(kind, D, p),
                Scoped_createReadStream(kind, D, p),
                ReadOnly_createReadStream(kind, D, p)))
PrependTo(via, p, c) ==
    Commit("prepend", via, p, NoPath, c,
           Call(via, Driver_prepend(kind, D, p, c), Scoped_prepend(kind, D, p, c),
                ReadOnly_prepend(kind, D, p, c)))
AppendTo(via, p, c) ==
    Commit("append", via, p, NoPath, c,
           Call(via, Driver_append(kind, D, p, c), Scoped_append(kind, D, p, c),
                ReadOnly_append(kind, D, p, c)))
ListFiles(via, dir, recursive) ==
    Commit("listFiles", via, dir, NoPath, NoContent,
           Call(via, Driver_listFiles(kind, D, dir, recursive),
                Scoped_listFiles(kind, D, dir, recursive),
                ReadOnly_listFiles(kind, D, dir, recursive)))

\* The three write calls that only the read-only wrapper is modelled for.
ReadOnlyMakeDirectory(p) ==
    Commit("makeDirectory", "readonly", p, NoPath, NoContent,
           ReadOnly_makeDirectory(kind, D, p))
ReadOnlyDeleteDirectory(p) ==
    Commit("deleteDirectory", "readonly", p, NoPath, NoContent,
           ReadOnly_deleteDirectory(kind, D, p))
ReadOnlySetVisibility(p) ==
    Commit("setVisibility", "readonly", p, NoPath, NoContent,
           ReadOnly_setVisibility(kind, D, p))

\* Number of callers that use one driver instance at a time.
MaxCallers == 2
Callers == 1..MaxCallers

\* A caller that has not called: nothing to do, nothing read. before is the
\* backend as its call found it, order the number of calls begun before it
\* and rank the number of calls ended before it (history); client is the
\* FTP/SFTP client its call holds, 0 for none.
NoCall ==
    [op |-> "none", path |-> NoPath, dest |-> NoPath, input |-> NoContent,
     opts |-> NoOpts, todo |-> <<>>, existing |-> <<>>, index |-> EmptyFn,
     status |-> "ok", before |-> [files |-> EmptyFn, dirs |-> {}, meta |-> EmptyFn],
     order |-> 0, rank |-> 0, client |-> 0]

Init ==
    /\ kind \in Kinds
    /\ files = EmptyFn
    /\ dirs = {}
    /\ meta = EmptyFn
    /\ tempLinks = EmptyFn
    /\ issued = EmptyFn
    /\ run = [caller \in Callers |-> NoCall]
    /\ sessions = EmptyFn
    /\ disks = EmptyFn
    /\ defaultDisk = "default"
    /\ stores = EmptyFn
    /\ now = 0
    /\ last = NoOp

----------------------------------------------------------------------------
(* Spec: a disk called directly and through a ReadOnly wrapper of it *)

\* The paths the callers of Spec use: 'a' at the root and 'x/a' in a directory.
PathA == <<"a">>
PathXA == <<"x", "/", "a">>
Paths == {PathA, PathXA}
\* The directories they list: the root and 'x'.
ListDirs == {<<>>, <<"x">>}

Vias == {"direct", "readonly"}

Next ==
    \/ \E via \in Vias, p \in Paths, c \in Contents : Put(via, p, c)
    \/ \E via \in Vias, p \in Paths : Get(via, p)
    \/ \E via \in Vias, p \in Paths : Delete(via, p)
    \/ \E via \in Vias, p \in Paths : Exists(via, p)
    \/ \E via \in Vias, a \in Paths, b \in Paths : Copy(via, a, b)
    \/ \E via \in Vias, a \in Paths, b \in Paths : Move(via, a, b)
    \/ \E via \in Vias, p \in Paths : CreateReadStream(via, p)
    \/ \E via \in Vias, p \in Paths, c \in Contents : PrependTo(via, p, c)
    \/ \E via \in Vias, p \in Paths, c \in Contents : AppendTo(via, p, c)
    \/ \E via \in Vias, d \in ListDirs, r \in BOOLEAN : ListFiles(via, d, r)
    \/ \E p \in Paths : ReadOnlyMakeDirectory(p)
    \/ \E p \in Paths : ReadOnlyDeleteDirectory(p)
    \/ \E p \in Paths : ReadOnlySetVisibility(p)

Spec == Init /\ [][Next]_vars

----------------------------------------------------------------------------
(* Claims on Spec *)

\* The disk after the step.
DNext == [files |-> files', dirs |-> dirs', meta |-> meta']

\* The bytes of a caller's content, written out: "é" is C3 A9 in UTF-8.
BytesOf(c) == IF c = TextE THEN <<195, 169>> ELSE <<255>>

WriteOps ==
    {"put", "delete", "copy", "move", "append", "prepend", "makeDirectory",
     "deleteDirectory", "setVisibility"}

C2_ReadOnly ==
    [][last'.via = "readonly" =>
         /\ DNext = D
         /\ last'.op \in WriteOps =>
              last'.status = "ReadOnly" /\ last'.handed = {}
         /\ last'.op = "get" =>
              /\ last'.status = Driver_get(kind, D, last'.path).status
              /\ last'.bytes = Driver_get(kind, D, last'.path).bytes
         /\ last'.op = "exists" =>
              /\ last'.status = Driver_exists(kind, D, last'.path).status
              /\ last'.flag = Driver_exists(kind, D, last'.path).flag
         /\ last'.op = "listFiles" =>
              \E r \in BOOLEAN :
                 /\ last'.status = Driver_listFiles(kind, D, last'.path, r).status
                 /\ last'.list = Driver_listFiles(kind, D, last'.path, r).list
         /\ last'.op = "createReadStream" =>
              /\ last'.status = Driver_createReadStream(kind, D, last'.path).status
              /\ last'.bytes = Driver_createReadStream(kind, D, last'.path).bytes
      ]_vars

\* A put through the wrapper was refused on a disk that holds the object.
C2_Witness ==
    /\ last.via = "readonly" /\ last.op = "put" /\ last.status = "ReadOnly"
    /\ Has(D, Resolve(kind, last.path))
    /\ Driver_get(kind, D, last.path).bytes # BytesOf(last.input)

----------------------------------------------------------------------------
(* SpecScoped: a disk called directly and through a Scoped wrapper of it
   with prefix 'x' *)

PathSlashA == <<"/", "a">>
PathUpA == <<".", ".", "/", "a">>

ScopedVias == {"direct", "scoped"}

\* The paths a caller passes: to the disk itself 'a' and 'x/a', to the
\* wrapper 'a', '/a' and '../a'.
PathsOf(via) ==
    IF via = "direct" THEN {PathA, PathXA} ELSE {PathA, PathSlashA, PathUpA}

\* The directories a caller lists: of the disk '' and 'x', of the wrapper ''.
ListDirsOf(via) == IF via = "direct" THEN ListDirs ELSE {<<>>}

NextScoped ==
    \/ \E via \in ScopedVias : \E p \in PathsOf(via), c \in Contents : Put(via, p, c)
    \/ \E via \in ScopedVias : \E p \in PathsOf(via) : Get(via, p)
    \/ \E via \in ScopedVias : \E p \in PathsOf(via) : Delete(via, p)
    \/ \E via \in ScopedVias : \E p \in PathsOf(via) : Exists(via, p)
    \/ \E via \in ScopedVias : \E a \in PathsOf(via), b \in PathsOf(via) : Copy(via, a, b)
    \/ \E via \in ScopedVias : \E a \in PathsOf(via), b \in PathsOf(via) : Move(via, a, b)
    \/ \E via \in ScopedVias : \E p \in PathsOf(via) : CreateReadStream(via, p)
    \/ \E via \in ScopedVias : \E p \in PathsOf(via), c \in Contents : PrependTo(via, p, c)
    \/ \E via \in ScopedVias : \E p \in PathsOf(via), c \in Contents : AppendTo(via, p, c)
    \/ \E via \in ScopedVias : \E d \in ListDirsOf(via), r \in BOOLEAN : ListFiles(via, d, r)

SpecScoped == Init /\ [][NextScoped]_vars

----------------------------------------------------------------------------
(* Claims on SpecScoped *)

\* Whether the place a driver of kind k reads or writes for the path h that
\* it was handed is the prefix 'x' or lies under it: in a hierarchy the
\* resolved location starts with the segment 'x', in a flat key space the
\* key starts with 'x/'.
UnderPrefix(k, h) ==
    IF k \in Hierarchical
    THEN LET segs == Split(Resolve(k, h)) IN segs # <<>> /\ Head(segs) = ScopedPrefix
    ELSE startsWith(h, ScopedPrefix \o <<"/">>)

\* C3: every path a call through the Scoped wrapper hands to the wrapped
\* driver, for paths with leading slashes or '..' segments and for both
\* arguments of copy and move, resolves to a location under the prefix.
C3_ScopedStaysUnderPrefix ==
    last.via = "scoped" => \A h \in last.handed : UnderPrefix(kind, h)

\* The path under 'x' that the caller's path p names: 'x/' and p, the
\* slashes p begins with being no part of it.
UnderX(p) ==
    <<"x", "/">> \o (IF p = PathSlashA THEN PathA ELSE p)

\* The result fields of a call.
Outcome(r) == <<r.status, r.bytes, r.flag, r.list>>

\* C4: a put(p, c) through the wrapper with prefix x leaves the wrapped
\* driver holding c at x/p, a get(p) through it returns what the wrapped
\* driver holds at x/p, and every other operation of the wrapper is the
\* wrapped driver's operation on x/p (for copy and move, on both paths).
C4_ScopedMapping ==
    [][last'.via = "scoped" =>
        LET op == last'.op
            p == UnderX(last'.path)
            q == UnderX(last'.dest)
            c == last'.input
            out == <<last'.status, last'.bytes, last'.flag, last'.list>>
        IN
         /\ last'.handed = IF op \in {"copy", "move"} THEN {p, q} ELSE {p}
         /\ op = "put" =>
              /\ out = Outcome(Driver_put(kind, D, p, c))
              /\ DNext = Driver_put(kind, D, p, c).st
              /\ last'.status = "ok" =>
                   Driver_get(kind, DNext, p).bytes = BytesOf(c)
         /\ op = "get" =>
              out = Outcome(Driver_get(kind, D, p)) /\ DNext = D
         /\ op = "delete" =>
              /\ out = Outcome(Driver_delete(kind, D, p))
              /\ DNext = Driver_delete(kind, D, p).st
         /\ op = "exists" =>
              out = Outcome(Driver_exists(kind, D, p)) /\ DNext = D
         /\ op = "copy" =>
              /\ out = Outcome(Driver_copy(kind, D, p, q))
              /\ DNext = Driver_copy(kind, D, p, q).st
         /\ op = "move" =>
              /\ out = Outcome(Driver_move(kind, D, p, q))
              /\ DNext = Driver_move(kind, D, p, q).st
         /\ op = "createReadStream" =>
              out = Outcome(Driver_createReadStream(kind, D, p)) /\ DNext = D
         /\ op = "prepend" =>
              /\ out = Outcome(Driver_prepend(kind, D, p, c))
              /\ DNext = Driver_prepend(kind, D, p, c).st
         /\ op = "append" =>
              /\ out = Outcome(Driver_append(kind, D, p, c))
              /\ DNext = Driver_append(kind, D, p, c).st
         /\ op = "listFiles" =>
              /\ \E r \in BOOLEAN : out = Outcome(Driver_listFiles(kind, D, p, r))
              /\ DNext = D
      ]_vars

\* A put of 'a' through the wrapper has completed, and the wrapped driver
\* holds the content at 'x/a'.
C4_Witness ==
    /\ last.via = "scoped" /\ last.op = "put" /\ last.status = "ok"
    /\ last.path = PathA
    /\ Driver_get(kind, D, PathXA).status = "ok"
    /\ Driver_get(kind, D, PathXA).bytes = BytesOf(last.input)
    /\ Driver_get(kind, D, PathA).status # "ok"

----------------------------------------------------------------------------
(* LocalStorageDriver's temporary links: the static table tempLinks, from a
   token to the path, the expiry instant and the constraints it was issued
   with. A token is 24 random bytes; the model gives each call a token that
   no earlier call was given. *)

\* expiresIn * 1000
MsPerSecond == 1000

\* LocalStorageDriver.getTemporaryUrl at instant t, the random token being
\* token: the table after tempLinks.set(token, { path, expiresAt, ...options }).
\* An option that is not given is "".
getTemporaryUrl(tl, t, token, relPath, expiresIn, ip, deviceId) ==
    SetKey(tl, token,
           [path |-> relPath, expiresAt |-> t + expiresIn * MsPerSecond,
            ip |-> ip, deviceId |-> deviceId])

\* The result of validateTempToken: the table after it, and what it returned.
Validated(tl, result) == [tl |-> tl, status |-> "ok", result |-> result]

\* A validation that never looks at the clock.
validateTempToken_NoExpiry(tl, t, token, req) ==
    IF token \notin DOMAIN tl THEN Validated(tl, Invalid)
    ELSE Validated(tl, Valid(tl[token].path))

\* A validation that consumes the token it accepts.
validateTempToken_OneShot(tl, t, token, req) ==
    IF token \notin DOMAIN tl THEN Validated(tl, Invalid)
    ELSE LET entry == tl[token] IN
         IF t > entry.expiresAt THEN Validated(DelKey(tl, token), Invalid)
         ELSE IF entry.ip # "" /\ req.present /\ req.ip # entry.ip
              THEN Validated(tl, Invalid)
         ELSE IF entry.deviceId # "" /\ req.present /\ req.deviceId # entry.deviceId
              THEN Validated(tl, Invalid)
         ELSE Validated(DelKey(tl, token), Valid(entry.path))

\* A validation that throws when the address does not match.
validateTempToken_Telling(tl, t, token, req) ==
    IF token \notin DOMAIN tl THEN Validated(tl, Invalid)
    ELSE LET entry == tl[token] IN
         IF t > entry.expiresAt THEN Validated(DelKey(tl, token), Invalid)
         ELSE IF entry.ip # "" /\ req.present /\ req.ip # entry.ip
              THEN [Validated(tl, Invalid) EXCEPT !.status = "Forbidden"]
         ELSE IF entry.deviceId # "" /\ req.present /\ req.deviceId # entry.deviceId
              THEN Validated(tl, Invalid)
         ELSE Validated(tl, Valid(entry.path))

\* LocalStorageDriver.validateTempToken(token, req) at instant t
validateTempToken(tl, t, token, req) ==
    IF token \notin DOMAIN tl THEN Validated(tl, Invalid)
    ELSE LET entry == tl[token] IN
         IF t > entry.expiresAt THEN Validated(DelKey(tl, token), Invalid)
         ELSE IF entry.ip # "" /\ req.present /\ req.ip # entry.ip
              THEN Validated(tl, Invalid)
         ELSE IF entry.deviceId # "" /\ req.present /\ req.deviceId # entry.deviceId
              THEN Validated(tl, Invalid)
         ELSE Validated(tl, Valid(entry.path))

\* Date.now() moves on.
Tick ==
    /\ now < MaxTicks * TickMs
    /\ now' = now + TickMs
    /\ UNCHANGED <<kind, files, dirs, meta, tempLinks, issued, last, run, sessions, disks, defaultDisk, stores>>

\* A call of getTemporaryUrl; issued keeps, for each token, the call that
\* issued it and its instant.
GetTemporaryUrl(relPath, expiresIn, ip, deviceId) ==
    LET token == Cardinality(DOMAIN issued) + 1 IN
    /\ token <= MaxTokens
    /\ tempLinks' = getTemporaryUrl(tempLinks, now, token, relPath, expiresIn, ip, deviceId)
    /\ issued' = SetKey(issued, token,
                        [at |-> now, path |-> relPath, expiresIn |-> expiresIn,
                         ip |-> ip, deviceId |-> deviceId])
    /\ last' = [NoOp EXCEPT !.op = "getTemporaryUrl", !.path = relPath,
                            !.token = token, !.at = now]
    /\ UNCHANGED <<kind, files, dirs, meta, now, run, sessions, disks, defaultDisk, stores>>

ValidateTempToken(token, req) ==
    LET r == validateTempToken(tempLinks, now, token, req) IN
    /\ tempLinks' = r.tl
    /\ last' = [NoOp EXCEPT !.op = "validateTempToken", !.token = token,
                            !.req = req, !.status = r.status,
                            !.result = r.result, !.at = now]
    /\ UNCHANGED <<kind, files, dirs, meta, issued, now, run, sessions, disks, defaultDisk, stores>>

----------------------------------------------------------------------------
(* SpecTokens: temporary links of the local driver, issued and validated
   while time passes *)

\* The requests a validation is called with: none, or one from an address
\* with or without an x-device-id header.
Reqs ==
    {NoReq} \cup
    {[present |-> TRUE, ip |-> a, deviceId |-> d] :
        a \in {"ip1", "ip2"}, d \in {"", "d1", "d2"}}

InitTokens == Init /\ kind = "local"

NextTokens ==
    \/ \E p \in Paths, e \in {0, 1}, a \in {"", "ip1"}, d \in {"", "d1"} :
          GetTemporaryUrl(p, e, a, d)
    \* token 0 is a token that was never issued
    \/ \E token \in 0..MaxTokens, req \in Reqs : ValidateTempToken(token, req)
    \/ Tick

SpecTokens == InitTokens /\ [][NextTokens]_vars

----------------------------------------------------------------------------
(* Claims on SpecTokens *)

\* C5: a token from getTemporaryUrl(path, expiresIn) validated at the
\* instant of its issue resolves to path, and validated at any instant more
\* than expiresIn seconds after its issue resolves to invalid, on the first
\* such validation and on every later one.
C5_TokenLifetime ==
    (last.op = "validateTempToken" /\ last.token \in DOMAIN issued) =>
        LET i == issued[last.token] IN
        /\ (last.at = i.at /\ i.ip = "" /\ i.deviceId = "")
              => last.result = Valid(i.path)
        /\ last.at > i.at + i.expiresIn * 1000
              => last.result = Invalid

\* A token issued for one second was validated more than a second later,
\* after an earlier validation had already found it expired.
C5_Witness ==
    /\ last.op = "validateTempToken" /\ last.token \in DOMAIN issued
    /\ issued[last.token].expiresIn = 1
    /\ last.at > issued[last.token].at + 1000
    /\ last.token \notin DOMAIN tempLinks
    /\ last.result = Invalid

\* C6: a token issued with an ip constraint (a deviceId constraint)
\* resolves to its path only in a validation whose request comes from that
\* address (carries that x-device-id); every other validation of it returns
\* invalid.
C6_ConstraintEnforced ==
    (last.op = "validateTempToken" /\ last.token \in DOMAIN issued
        /\ last.result.valid) =>
        LET i == issued[last.token] IN
        /\ i.ip # "" => (last.req.present /\ last.req.ip = i.ip)
        /\ i.deviceId # "" => (last.req.present /\ last.req.deviceId = i.deviceId)

\* Why the validation that last records has to fail: the token was never
\* issued, its time is over, or the request comes from another address or
\* carries another device id than the token was issued for.
Unknown == last.token \notin DOMAIN issued
Expired ==
    /\ last.token \in DOMAIN issued
    /\ last.at > issued[last.token].at + issued[last.token].expiresIn * 1000
IpMismatch ==
    /\ last.token \in DOMAIN issued
    /\ issued[last.token].ip # ""
    /\ last.req.present /\ last.req.ip # issued[last.token].ip
DeviceMismatch ==
    /\ last.token \in DOMAIN issued
    /\ issued[last.token].deviceId # ""
    /\ last.req.present /\ last.req.deviceId # issued[last.token].deviceId

\* C7: for an unknown token, an expired token, an address mismatch and a
\* device-id mismatch alike, validateTempToken returns the one value
\* invalid and throws nothing.
C7_IndistinguishableInvalid ==
    (last.op = "validateTempToken"
        /\ (Unknown \/ Expired \/ IpMismatch \/ DeviceMismatch)) =>
        /\ last.status = "ok"
        /\ last.result = Invalid

\* A token that is still good was refused to a request from another address.
C7_Witness ==
    /\ last.op = "validateTempToken"
    /\ IpMismatch /\ ~Expired /\ ~DeviceMismatch
    /\ last.token \in DOMAIN tempLinks
    /\ last.result = Invalid

----------------------------------------------------------------------------
(* Timed files: putTimed records an expiry instant for the object (local: a
   sidecar file <file>.meta.json; S3: the object's tag expiresAt; FTP: an
   entry of the index .ftp-expirations.json under the caller's path), and
   deleteExpiredFiles sweeps. meta holds these records. *)

\* options.expiresAt ? options.expiresAt.getTime()
\*   : options.ttl ? Date.now() + options.ttl * 1000 : undefined
\* at instant t; undefined is written 0, which `if (expiresAt)` treats alike.
expiresAtOf(t, o) ==
    IF o.hasDate THEN o.date
    ELSE IF o.ttl # 0 THEN t + o.ttl * MsPerSecond
    ELSE 0

\* Restrict a map to the keys outside ks.
DelKeys(f, ks) == [x \in (DOMAIN f) \ ks |-> f[x]]

\* A finished sweep that deleted the objects ks.
Swept(s, ks) == [Ok(s) EXCEPT !.count = Cardinality(ks), !.deleted = ks]

Local_putTimed(s, t, relPath, c, o) ==
    LET r == Local_put(s, relPath, c)
        expiresAt == expiresAtOf(t, o)
    IN IF r.status # "ok" THEN r
       ELSE IF expiresAt # 0
            THEN Ok([r.st EXCEPT !.meta = SetKey(@, fullPath(relPath), expiresAt)])
            ELSE r

\* A sweep that takes every file with a sidecar for expired.
Local_deleteExpiredFiles_Eager(s, t) ==
    LET ks == {k \in DOMAIN s.files : k \in DOMAIN s.meta}
    IN Swept([s EXCEPT !.files = DelKeys(@, ks), !.meta = DelKeys(@, ks)], ks)

\* LocalStorageDriver.deleteExpiredFiles at instant t: for each path that
\* listFiles('', true) reports, read the sidecar of that path; when it holds
\* an instant before t, delete the file, unlink the sidecar and count. A
\* sidecar that cannot be read, and a delete that throws, skip the path.
Local_deleteExpiredFiles(s, t) ==
    LET listed == Local_walk(s, <<>>, TRUE)
        hit == {f \in listed :
                  /\ fullPath(f) \in DOMAIN s.meta
                  /\ s.meta[fullPath(f)] # 0
                  /\ t > s.meta[fullPath(f)]}
        ks == {fullPath(f) : f \in {g \in hit : Has(s, fullPath(g))}}
    IN Swept([s EXCEPT !.files = DelKeys(@, ks), !.meta = DelKeys(@, ks)], ks)

\* PutObject, then PutObjectTagging with the tag expiresAt.
S3_putTimed(s, t, path, c, o) ==
    LET r == S3_put(s, path, c)
        expiresAt == expiresAtOf(t, o)
    IN IF r.status # "ok" THEN r
       ELSE IF expiresAt # 0
            THEN Ok([r.st EXCEPT !.meta = SetKey(@, path, expiresAt)])
            ELSE r

\* S3StorageDriver.deleteExpiredFiles at instant t: every listed key whose
\* tag expiresAt, read back as a number, is before t is deleted and counted;
\* the tag goes with the object.
S3_deleteExpiredFiles(s, t) ==
    LET ks == {k \in DOMAIN s.files : k \in DOMAIN s.meta /\ t > s.meta[k]}
    IN Swept([s EXCEPT !.files = DelKeys(@, ks), !.meta = DelKeys(@, ks)], ks)

\* put, then meta[relPath] = expiresAt in the index file, which is read and
\* written on the local file system (taken to be readable and writable).
FTP_putTimed(s, t, relPath, c, o) ==
    LET r == FTP_put(s, relPath, c)
        expiresAt == expiresAtOf(t, o)
    IN IF r.status # "ok" THEN r
       ELSE IF expiresAt # 0
            THEN Ok([r.st EXCEPT !.meta = SetKey(@, relPath, expiresAt)])
            ELSE r

\* FTPStorageDriver.deleteExpiredFiles at instant t: for every entry of the
\* index with an instant before t, delete the file; when that succeeds count
\* it and drop the entry, when it throws keep the entry. (Two entries for
\* one file, under two spellings of its path, are not modelled apart.)
FTP_deleteExpiredFiles(s, t) ==
    LET hit == {f \in DOMAIN s.meta : t > s.meta[f]}
        done == {f \in hit : Has(s, normalizeRemotePath(f))}
        ks == {normalizeRemotePath(f) : f \in done}
    IN Swept([s EXCEPT !.files = DelKeys(@, ks), !.meta = DelKeys(@, done)], ks)

\* A service putTimed that throws on a driver without putTimed.
Service_putTimed_Strict(k, s, t, p, c, o) ==
    IF k = "buffer" THEN Err(s, "Unsupported")
    ELSE CASE k = "local" -> Local_putTimed(s, t, p, c, o)
           [] k = "s3" -> S3_putTimed(s, t, p, c, o)
           [] k = "ftp" -> FTP_putTimed(s, t, p, c, o)

\* FileStorageService.putTimed: the driver's putTimed when it has one,
\* else its put.
Service_putTimed(k, s, t, p, c, o) ==
    CASE k = "buffer" -> Buffer_put(s, p, c)
      [] k = "local" -> Local_putTimed(s, t, p, c, o)
      [] k = "s3" -> S3_putTimed(s, t, p, c, o)
      [] k = "ftp" -> FTP_putTimed(s, t, p, c, o)

\* FileStorageService.deleteExpiredFiles: the driver's sweep when it has
\* one, else 0.
Service_deleteExpiredFiles(k, s, t) ==
    CASE k = "buffer" -> Swept(s, {})
      [] k = "local" -> Local_deleteExpiredFiles(s, t)
      [] k = "s3" -> S3_deleteExpiredFiles(s, t)
      [] k = "ftp" -> FTP_deleteExpiredFiles(s, t)

PutTimed(p, c, o) ==
    CommitOpts("putTimed", "direct", p, NoPath, c, o,
               Service_putTimed(kind, D, now, p, c, o))

DeleteExpiredFiles ==
    Commit("deleteExpiredFiles", "direct", NoPath, NoPath, NoContent,
           Service_deleteExpiredFiles(kind, D, now))

----------------------------------------------------------------------------
(* SpecTimed: timed and plain writes, deletes and sweeps while time passes *)

Ttl(n) == [hasDate |-> FALSE, date |-> 0, ttl |-> n]

\* The options callers pass: a ttl of 0, of 1 and of 3600 seconds, and an
\* expiresAt date half a second after the start together with a ttl.
TimedOpts == {Ttl(0), Ttl(1), Ttl(3600), [hasDate |-> TRUE, date |-> TickMs, ttl |-> 3600]}

\* The drivers that have putTimed and deleteExpiredFiles.
TimedKinds == {"local", "s3", "ftp"}

InitTimed == Init /\ kind \in TimedKinds

NextTimed ==
    \/ \E p \in Paths, o \in TimedOpts : PutTimed(p, TextE, o)
    \/ DeleteExpiredFiles
    \/ Tick
    \/ \E p \in Paths : Put("direct", p, ByteFF)
    \/ \E p \in Paths : Delete("direct", p)

SpecTimed == InitTimed /\ [][NextTimed]_vars

----------------------------------------------------------------------------
(* Claims on SpecTimed *)

\* The expiry instants recorded for the object at place o of a disk of kind k.
Expiries(k, s, o) == {s.meta[r] : r \in {x \in DOMAIN s.meta : Resolve(k, x) = o}}

\* The step is a sweep.
SweepStep == last'.op = "deleteExpiredFiles" /\ last'.status = "ok" /\ now' = now

\* C8: putTimed(p, c, {ttl: 0}) immediately followed by deleteExpiredFiles()
\* deletes p, so that exists(p) is false afterwards, and the sweep's count
\* includes p.
C8_TtlZeroSwept ==
    [][(/\ last.op = "putTimed" /\ last.status = "ok" /\ last.opts = Ttl(0)
        /\ last.at = now
        /\ SweepStep)
        => /\ ~Driver_exists(kind', DNext, last.path).flag
           /\ Resolve(kind, last.path) \in last'.deleted
           /\ last'.count >= 1
      ]_vars

\* C9: a sweep neither deletes nor counts an object all of whose recorded
\* expiry instants are later than the instant of the sweep; the object is
\* there afterwards with the content it had.
C9_SweepKeepsUnexpired ==
    [][SweepStep =>
         \A o \in DOMAIN files :
            (Expiries(kind, D, o) # {} /\ \A e \in Expiries(kind, D, o) : e > now)
            => /\ o \in DOMAIN files'
               /\ files'[o] = files[o]
               /\ o \notin last'.deleted
               /\ last'.count <= Cardinality(DOMAIN files) - 1
      ]_vars

\* A sweep deleted an object and left another, put with a ttl of 3600
\* seconds, whose expiry instant is still to come.
C9_Witness ==
    /\ last.op = "deleteExpiredFiles" /\ last.count = 1
    /\ \E o \in DOMAIN files :
          /\ Expiries(kind, D, o) = {3600 * 1000}
          /\ files[o] = <<195, 169>>

\* C10: when a sweep completes, every object, at any depth, with a recorded
\* expiry instant at or before the instant of the sweep has been deleted and
\* has no expiry record left, and the count returned is the number of
\* objects the sweep deleted.
C10_SweepDeletesAllExpired ==
    [][SweepStep =>
         /\ \A o \in DOMAIN files :
               (\E e \in Expiries(kind, D, o) : e <= now)
               => /\ o \notin DOMAIN files'
                  /\ Expiries(kind', DNext, o) = {}
         /\ last'.count = Cardinality((DOMAIN files) \ (DOMAIN files'))
      ]_vars

\* C11: the expiry putTimed records is fixed when it writes: the expiresAt
\* date when one is given (also next to a ttl), else the instant of the
\* write plus ttl seconds, in epoch milliseconds; neither a later sweep nor
\* the passing of time changes the record of an object that stays.
C11_ExpiryFixedAtWrite ==
    [][/\ (last'.op = "putTimed" /\ last'.status = "ok" /\ now' = now)
            => Expiries(kind', DNext, Resolve(kind', last'.path))
                 = {IF last'.opts.hasDate THEN last'.opts.date
                    ELSE last'.at + last'.opts.ttl * 1000}
       /\ SweepStep
            => \A o \in DOMAIN files' :
                  Expiries(kind', DNext, o) = Expiries(kind, D, o)
       /\ now' # now => meta' = meta
      ]_vars

----------------------------------------------------------------------------
(* GoogleDriveStorageDriver: the files of one Drive folder. Drive gives each
   file an id and lets several files of a folder carry one name; the driver
   finds a file by the base name of the caller's path. In SpecDrive files
   maps a file id to the file's name and bytes. *)

\* Number of files the folder may hold.
MaxDriveFiles == 3

\* path.basename(filePath)
basename(filePath) == IF filePath = <<>> THEN <<>> ELSE Last(Split(filePath))

\* GoogleDriveStorageDriver.findFileId: the ids that files.list with the
\* query name = basename(filePath) returns; the driver takes the first of
\* the list, whose order Drive does not fix, so any of them may be the one;
\* null when there is none.
findFileId(fs, filePath) == {id \in DOMAIN fs : fs[id].name = basename(filePath)}

\* The id files.create and files.copy give the new file.
NewFileId(fs) == CHOOSE id \in 1..MaxDriveFiles : id \notin DOMAIN fs

\* A GoogleDriveStorageDriver call ended: the folder after it and its result.
DriveCommit(op, path, dest, input, fs, status, bytes, flag) ==
    /\ files' = fs
    /\ last' = [NoOp EXCEPT !.op = op, !.path = path, !.dest = dest,
                            !.input = input, !.status = status,
                            !.bytes = bytes, !.flag = flag, !.at = now]
    /\ UNCHANGED <<kind, dirs, meta, tempLinks, issued, now, run, sessions, disks, defaultDisk, stores>>

\* put: files.update of the file found, else files.create
GDrive_put(filePath, c) ==
    \/ \E fileId \in findFileId(files, filePath) :
          DriveCommit("put", filePath, NoPath, c,
                      [files EXCEPT ![fileId].bytes = ToBuffer(c)], "ok", <<>>, FALSE)
    \/ /\ findFileId(files, filePath) = {}
       /\ Cardinality(DOMAIN files) < MaxDriveFiles
       /\ DriveCommit("put", filePath, NoPath, c,
                      SetKey(files, NewFileId(files),
                             [name |-> basename(filePath), bytes |-> ToBuffer(c)]),
                      "ok", <<>>, FALSE)

GDrive_get(filePath) ==
    \/ \E fileId \in findFileId(files, filePath) :
          DriveCommit("get", filePath, NoPath, NoContent, files, "ok",
                      files[fileId].bytes, FALSE)
    \/ /\ findFileId(files, filePath) = {}
       /\ DriveCommit("get", filePath, NoPath, NoContent, files, "NotFound", <<>>, FALSE)

\* delete: if (fileId) files.delete({ fileId })
GDrive_delete(filePath) ==
    \/ \E fileId \in findFileId(files, filePath) :
          DriveCommit("delete", filePath, NoPath, NoContent, DelKey(files, fileId),
                      "ok", <<>>, FALSE)
    \/ /\ findFileId(files, filePath) = {}
       /\ DriveCommit("delete", filePath, NoPath, NoContent, files, "ok", <<>>, FALSE)

GDrive_exists(filePath) ==
    DriveCommit("exists", filePath, NoPath, NoContent, files, "ok", <<>>,
                findFileId(files, filePath) # {})

\* copy: files.copy of the file found, under the name basename(dest)
GDrive_copy(src, dest) ==
    \/ \E fileId \in findFileId(files, src) :
          /\ Cardinality(DOMAIN files) < MaxDriveFiles
          /\ DriveCommit("copy", src, dest, NoContent,
                         SetKey(files, NewFileId(files),
                                [name |-> basename(dest), bytes |-> files[fileId].bytes]),
                         "ok", <<>>, FALSE)
    \/ /\ findFileId(files, src) = {}
       /\ DriveCommit("copy", src, dest, NoContent, files, "NotFound", <<>>, FALSE)

\* move: files.update of the file found, with the name basename(dest)
GDrive_move(src, dest) ==
    \/ \E fileId \in findFileId(files, src) :
          DriveCommit("move", src, dest, NoContent,
                      [files EXCEPT ![fileId].name = basename(dest)], "ok", <<>>, FALSE)
    \/ /\ findFileId(files, src) = {}
       /\ DriveCommit("move", src, dest, NoContent, files, "NotFound", <<>>, FALSE)

----------------------------------------------------------------------------
(* SpecDrive: a Google Drive disk under any sequence of calls *)

PathB == <<"b">>

\* The paths callers use: 'a', 'b' and 'x/a'.
DrivePaths == {PathA, PathB, PathXA}

InitDrive ==
    /\ kind = "gdrive"
    /\ files = EmptyFn
    /\ dirs = {}
    /\ meta = EmptyFn
    /\ tempLinks = EmptyFn
    /\ issued = EmptyFn
    /\ run = [caller \in Callers |-> NoCall]
    /\ sessions = EmptyFn
    /\ disks = EmptyFn
    /\ defaultDisk = "default"
    /\ stores = EmptyFn
    /\ now = 0
    /\ last = NoOp

NextDrive ==
    \/ \E p \in DrivePaths, c \in Contents : GDrive_put(p, c)
    \/ \E p \in DrivePaths : GDrive_get(p)
    \/ \E p \in DrivePaths : GDrive_delete(p)
    \/ \E p \in DrivePaths : GDrive_exists(p)
    \/ \E a \in DrivePaths, b \in DrivePaths : GDrive_copy(a, b)
    \/ \E a \in DrivePaths, b \in DrivePaths : GDrive_move(a, b)

SpecDrive == InitDrive /\ [][NextDrive]_vars

----------------------------------------------------------------------------
(* Claims about copy, move and delete, on a Google Drive disk *)

\* The contents get(p) may return on a Google Drive folder.
DriveGets(fs, p) == {fs[fileId].bytes : fileId \in findFileId(fs, p)}

\* A call of the given operation completed in this step.
Completed(op) == last'.op = op /\ last'.status = "ok"

\* C16: for an existing a and any b different from a, after copy(a, b)
\* completes get(b) returns the content get(a) returned before the copy, and
\* get(a) still returns that content.
C16_CopyThenGet ==
    [][(Completed("copy") /\ last'.path # last'.dest
          /\ findFileId(files, last'.path) # {})
         => \E c \in DriveGets(files, last'.path) :
               /\ DriveGets(files', last'.dest) = {c}
               /\ DriveGets(files', last'.path) = {c}
      ]_vars

\* C17: for an existing a and any b different from a, after move(a, b)
\* completes exists(a) is false and get(b) returns the content get(a)
\* returned before the move.
C17_MoveThenGet ==
    [][(Completed("move") /\ last'.path # last'.dest
          /\ findFileId(files, last'.path) # {})
         => /\ findFileId(files', last'.path) = {}
            /\ \E c \in DriveGets(files, last'.path) :
                  DriveGets(files', last'.dest) = {c}
      ]_vars

\* C18: after delete(p) completes, and before any write to p, exists(p)
\* returns false.
C18_DeleteThenExists ==
    [][Completed("delete") => findFileId(files', last'.path) = {}]_vars

----------------------------------------------------------------------------
(* Claims about append and prepend, on the four disks of Spec *)

\* C19: append(p, c) leaves p holding the previous content followed by c and
\* prepend(p, c) leaves it holding c followed by the previous content, the
\* previous content being empty when p is absent; on an absent p both end in
\* the state put(p, c) ends in.
C19_AppendPrepend ==
    [][(last'.op \in {"append", "prepend"} /\ last'.via = "direct")
         => LET p == last'.path
                c == last'.input
                before == Driver_get(kind, D, p)
                previous == IF before.status = "ok" THEN before.bytes ELSE <<>>
                asPut == Driver_put(kind, D, p, c)
            IN /\ last'.status = "ok"
                    => /\ Driver_get(kind, DNext, p).status = "ok"
                       /\ Driver_get(kind, DNext, p).bytes
                            = IF last'.op = "append" THEN previous \o BytesOf(c)
                              ELSE BytesOf(c) \o previous
               /\ ~Driver_exists(kind, D, p).flag
                    => /\ DNext = asPut.st
                       /\ last'.status = asPut.status
      ]_vars

----------------------------------------------------------------------------
(* exists() when the backend fails: the request meets no fault ("none"), is
   refused for its credentials ("auth"), cannot reach the backend
   ("unreachable"), or loses an established connection ("dropped"). *)

Faults == {"none", "auth", "unreachable", "dropped"}

\* S3StorageDriver.exists: try { HeadObject; return true } catch { return false }
S3_existsUnder(s, path, fault) ==
    IF fault = "none" THEN S3_exists(s, path) ELSE OkFlag(s, FALSE)

\* LocalStorageDriver.exists: try { fs.access; return true } catch { return false }
Local_existsUnder(s, relPath, fault) ==
    IF fault = "none" THEN Local_exists(s, relPath) ELSE OkFlag(s, FALSE)

\* FTPStorageDriver.exists: withClient connects and logs in outside the try
\* of the command, whose own failure is caught and answered false.
FTP_existsUnder(s, relPath, fault) ==
    IF fault \in {"auth", "unreachable"} THEN Err(s, "TransportFailure")
    ELSE IF fault = "dropped" THEN OkFlag(s, FALSE)
    ELSE FTP_exists(s, relPath)

\* The in-memory driver has no backend to reach.
Driver_existsUnder(k, s, p, fault) ==
    CASE k = "buffer" -> Buffer_exists(s, p)
      [] k = "local" -> Local_existsUnder(s, p, fault)
      [] k = "s3" -> S3_existsUnder(s, p, fault)
      [] k = "ftp" -> FTP_existsUnder(s, p, fault)

ExistsUnder(p, fault) ==
    LET r == Driver_existsUnder(kind, D, p, fault)
    IN /\ last' = [NoOp EXCEPT !.op = "exists", !.path = p, !.fault = fault,
                               !.status = r.status, !.flag = r.flag, !.at = now]
       /\ UNCHANGED <<kind, files, dirs, meta, tempLinks, issued, now, run, sessions, disks, defaultDisk, stores>>

NextFaults ==
    \/ \E p \in Paths, c \in Contents : Put("direct", p, c)
    \/ \E p \in Paths : Delete("direct", p)
    \/ \E a \in Paths, b \in Paths : Move("direct", a, b)
    \/ \E p \in Paths, fault \in Faults : ExistsUnder(p, fault)

SpecFaults == Init /\ [][NextFaults]_vars

\* C20: exists(p) returns false, without raising, whenever p is absent, and
\* raises instead of returning false when the backend cannot be reached or
\* authentication fails.
C20_ExistsRaisesOnFailure ==
    [][last'.op = "exists"
         => /\ (last'.fault = "none" /\ Driver_get(kind, D, last'.path).status # "ok")
                 => (last'.status = "ok" /\ ~last'.flag)
            /\ (last'.fault # "none" /\ kind # "buffer") => last'.status # "ok"
      ]_vars

----------------------------------------------------------------------------
(* Calls in flight. A driver method is a chain of awaited requests to the
   backend; between two of them the calls of other callers run. run holds,
   for each caller, the requests its call has still to make. *)

\* BufferStorageDriver: move awaits copy, then delete; the other methods
\* have no await between reading the map and writing it. The service's
\* putTimed falls back to put.
Buffer_steps(op, timed) ==
    CASE op = "move" -> <<"copy", "delete">>
      [] op = "putTimed" -> <<"put">>
      [] OTHER -> <<op>>

\* LocalStorageDriver: prepend is readFile then writeFile; putTimed is put,
\* then the write of the sidecar; append is fs.appendFile, move fs.rename.
Local_steps(op, timed) ==
    CASE op = "prepend" -> <<"read", "write">>
      [] op = "putTimed" -> IF timed THEN <<"put", "record">> ELSE <<"put">>
      [] OTHER -> <<op>>

\* S3StorageDriver: append and prepend are get then put; move is copy then
\* delete; putTimed is put then PutObjectTagging.
S3_steps(op, timed) ==
    CASE op \in {"append", "prepend"} -> <<"read", "write">>
      [] op = "move" -> <<"copy", "delete">>
      [] op = "putTimed" -> IF timed THEN <<"put", "record">> ELSE <<"put">>
      [] OTHER -> <<op>>

\* FTPStorageDriver: append and prepend are get then put; putTimed is put,
\* then readFile and writeFile of the index; deleteExpiredFiles is readFile
\* of the index, the deletes, writeFile of the index; move is one rename.
FTP_steps(op, timed) ==
    CASE op \in {"append", "prepend"} -> <<"read", "write">>
      [] op = "putTimed" ->
            IF timed THEN <<"put", "readIndex", "writeIndex">> ELSE <<"put">>
      [] op = "deleteExpiredFiles" -> <<"readIndex", "sweep", "writeIndex">>
      [] OTHER -> <<op>>

Driver_steps(k, op, timed) ==
    CASE k = "buffer" -> Buffer_steps(op, timed)
      [] k = "local" -> Local_steps(op, timed)
      [] k = "s3" -> S3_steps(op, timed)
      [] k = "ftp" -> FTP_steps(op, timed)

\* What a read-modify-write append or prepend writes back: S3 concatenates
\* Buffers; Local prepend and, for a string, FTP go through toString().
newContent(k, call) ==
    LET c == call.input
        lossy == k = "local" \/ (k = "ftp" /\ c.type = "string")
        existing == IF lossy THEN Utf8Encode(Utf8Decode(call.existing))
                    ELSE call.existing
    IN IF call.op = "append" THEN existing \o ToBuffer(c)
       ELSE ToBuffer(c) \o existing

\* One request of a call, on the backend s at instant t: the backend after
\* it, its outcome, and what the call holds in memory after it.
Request(k, s, t, call, name) ==
    LET done(r) == [st |-> r.st, status |-> r.status,
                    existing |-> call.existing, index |-> call.index]
        expiresAt == expiresAtOf(t, call.opts)
    IN CASE name = "put" -> done(Driver_put(k, s, call.path, call.input))
         [] name = "append" -> done(Driver_append(k, s, call.path, call.input))
         [] name = "prepend" -> done(Driver_prepend(k, s, call.path, call.input))
         [] name = "move" -> done(Driver_move(k, s, call.path, call.dest))
         [] name = "copy" -> done(Driver_copy(k, s, call.path, call.dest))
         [] name = "delete" -> done(Driver_delete(k, s, call.path))
         [] name = "read" ->
              LET r == Driver_get(k, s, call.path)
              IN [done(Ok(s)) EXCEPT
                    !.existing = IF r.status = "ok" THEN r.bytes ELSE <<>>]
         [] name = "write" ->
              done(Driver_put(k, s, call.path,
                              [type |-> "buffer", data |-> newContent(k, call)]))
         [] name = "record" ->
              IF k = "s3" /\ ~Has(s, call.path) THEN done(Err(s, "NotFound"))
              ELSE done(Ok([s EXCEPT !.meta =
                              SetKey(@, Resolve(k, call.path), expiresAt)]))
         [] name = "readIndex" ->
              [done(Ok(s)) EXCEPT
                 !.index = IF call.op = "putTimed"
                           THEN SetKey(s.meta, call.path, expiresAt)
                           ELSE s.meta]
         [] name = "sweep" ->
              LET r == FTP_deleteExpiredFiles([s EXCEPT !.meta = call.index], t)
              IN [done(Ok([r.st EXCEPT !.meta = s.meta])) EXCEPT
                    !.index = r.st.meta]
         [] name = "writeIndex" -> done(Ok([s EXCEPT !.meta = call.index]))

\* The requests whose failure the method catches and goes on from.
Swallowed == {"read", "readIndex", "sweep"}

\* The calls that have ended.
Ended == {x \in Callers : run[x].op # "none" /\ run[x].todo = <<>>}

\* A caller calls op.
Begin(caller, op, p, dest, c, o) ==
    /\ run[caller].op = "none"
    /\ run' = [run EXCEPT ![caller] =
                 [NoCall EXCEPT !.op = op, !.path = p, !.dest = dest,
                                !.input = c, !.opts = o,
                                !.todo = Driver_steps(kind, op, expiresAtOf(now, o) # 0),
                                !.before = D,
                                !.order = Cardinality({x \in Callers : run[x].op # "none"})]]
    /\ UNCHANGED <<kind, files, dirs, meta, tempLinks, issued, now, last, sessions, disks, defaultDisk, stores>>

\* The next request of a call is answered.
Step(caller) ==
    /\ run[caller].todo # <<>>
    /\ LET call == run[caller]
           r == Request(kind, D, now, call, Head(call.todo))
       IN /\ files' = r.st.files
          /\ dirs' = r.st.dirs
          /\ meta' = r.st.meta
          /\ run' = [run EXCEPT ![caller] =
                       [call EXCEPT !.existing = r.existing, !.index = r.index,
                                    !.status = r.status,
                                    !.rank = Cardinality(Ended),
                                    !.todo = IF r.status = "ok" THEN Tail(call.todo)
                                             ELSE <<>>]]
    /\ UNCHANGED <<kind, tempLinks, issued, now, last, sessions, disks, defaultDisk, stores>>

\* The next request of a call fails on the way: the backend stays as it
\* is; the method goes on when it catches the failure and rejects otherwise.
StepFails(caller) ==
    /\ run[caller].todo # <<>>
    /\ LET call == run[caller]
       IN run' = [run EXCEPT ![caller] =
                    IF Head(call.todo) \in Swallowed
                    THEN [call EXCEPT !.todo = Tail(call.todo),
                                      !.rank = Cardinality(Ended)]
                    ELSE [call EXCEPT !.todo = <<>>, !.rank = Cardinality(Ended),
                                      !.status = "TransportFailure"]]
    /\ UNCHANGED <<kind, files, dirs, meta, tempLinks, issued, now, last, sessions, disks, defaultDisk, stores>>

----------------------------------------------------------------------------
(* SpecSteps: a disk is filled, then each caller makes one call, and the
   requests of the calls interleave *)

\* The methods the callers call.
StepOps == {"put", "append", "prepend", "move", "putTimed", "deleteExpiredFiles"}

NextSteps ==
    \/ /\ \A caller \in Callers : run[caller].op = "none"
       /\ \E c \in Contents : Put("direct", PathA, c)
    \/ \E caller \in Callers, op \in StepOps, c \in Contents :
          /\ op = "deleteExpiredFiles" => kind = "ftp"
          /\ Begin(caller, op, PathA, PathXA, c, Ttl(1))
    \/ \E caller \in Callers : Step(caller)
    \/ \E caller \in Callers : StepFails(caller)

SpecSteps == Init /\ [][NextSteps]_vars

----------------------------------------------------------------------------
(* Claims about calls in flight, on SpecSteps *)

\* The backend a call leaves when it runs from s without interruption.
Whole(k, s, t, call) ==
    CASE call.op = "put" -> Driver_put(k, s, call.path, call.input).st
      [] call.op = "append" -> Driver_append(k, s, call.path, call.input).st
      [] call.op = "prepend" -> Driver_prepend(k, s, call.path, call.input).st
      [] call.op = "move" -> Driver_move(k, s, call.path, call.dest).st
      [] call.op = "putTimed" ->
            Service_putTimed(k, s, t, call.path, call.input, call.opts).st
      [] OTHER -> s

\* C12: whenever the backend can be observed, between the requests of a
\* call and after a call has failed part-way, a put, putTimed, append,
\* prepend or move that ran alone has left the backend either as it found
\* it or fully updated: a move never leaves source and destination both
\* present, a putTimed never leaves the object without its expiry record.
C12_NoIntermediateState ==
    \A caller \in Callers :
        (/\ run[caller].op \in {"put", "putTimed", "append", "prepend", "move"}
         /\ \A other \in Callers \ {caller} : run[other].op = "none")
        => D \in {run[caller].before,
                  Whole(kind, run[caller].before, now, run[caller])}

\* A call is inside its read-modify-write cycle of the FTP index: it has
\* read the index and has yet to write it back.
InCycle(caller) ==
    /\ kind = "ftp"
    /\ run[caller].op \in {"putTimed", "deleteExpiredFiles"}
    /\ run[caller].todo # <<>>
    /\ Head(run[caller].todo) \in {"sweep", "writeIndex"}

\* C13: the read-modify-write of the expiry index by putTimed and by
\* deleteExpiredFiles is a critical section: no two cycles on one driver
\* instance overlap, and the index always maps paths to expiry instants.
C13_IndexCriticalSection ==
    /\ \A c1 \in Callers, c2 \in Callers :
          c1 # c2 => ~(InCycle(c1) /\ InCycle(c2))
    /\ \A f \in DOMAIN meta : meta[f] \in Nat

\* The content op makes of the content x and the addition c.
Added(op, x, c) == IF op = "append" THEN x \o c ELSE c \o x

\* C14: when two append/prepend calls on one existing path of a backend
\* that emulates them by read-modify-write have ended, the path holds the
\* prior content with both additions in one of the two orders, or with
\* exactly one of them, and nothing else; after two puts to one path it
\* holds the content of the put that ended last.
C14_ConcurrentWrites ==
    \A c1 \in Callers, c2 \in Callers :
        (c1 # c2 /\ {c1, c2} \subseteq Ended
           /\ run[c1].status = "ok" /\ run[c2].status = "ok"
           /\ run[c1].order = 0) =>
        LET key == Resolve(kind, PathA)
            a1 == BytesOf(run[c1].input)
            a2 == BytesOf(run[c2].input)
            op1 == run[c1].op
            op2 == run[c2].op
            emulated(op) == Driver_steps(kind, op, FALSE) = <<"read", "write">>
        IN /\ (emulated(op1) /\ emulated(op2) /\ key \in DOMAIN run[c1].before.files)
                => LET prior == run[c1].before.files[key]
                   IN /\ key \in DOMAIN files
                      /\ files[key] \in
                            {Added(op2, Added(op1, prior, a1), a2),
                             Added(op1, Added(op2, prior, a2), a1),
                             Added(op1, prior, a1),
                             Added(op2, prior, a2)}
           /\ (op1 = "put" /\ op2 = "put")
                => /\ key \in DOMAIN files
                   /\ files[key] = IF run[c1].rank > run[c2].rank THEN a1 ELSE a2

----------------------------------------------------------------------------
(* FTP and SFTP sessions. Every driver method runs its commands inside
   withClient, which makes a client, connects it, runs the commands and
   closes the client in a finally block. sessions maps each client ever
   made to the call that made it (owner), its state and the calls that sent
   anything over it (users); a call is named by the first client it made. *)

\* Number of clients a behaviour may make.
MaxSessions == 3

\* The awaited stages of one withClient: FTP logs in with client.access,
\* enters config.root with ensureDir and cd, then runs fn(client); SFTP
\* connects and runs fn(client).
Stages(k) == IF k = "ftp" THEN <<"access", "cd", "fn">> ELSE <<"connect", "fn">>

\* The number of withClient runs of a method: copy, append and prepend are
\* this.get(...) followed by this.put(...).
Invocations(op) == IF op \in {"copy", "append"} THEN 2 ELSE 1

\* A withClient that closes the client only after fn has returned.
withClient_NoFinally(k, stage, ok) ==
    IF ok /\ stage = "fn" THEN "closed" ELSE "open"

\* withClient: the state of the client when a stage has ended. A stage that
\* throws leaves through finally { client.close() } (SFTP: client.end()),
\* and so does the return of fn.
withClient(k, stage, ok) ==
    IF ~ok \/ stage = "fn" THEN "closed" ELSE "open"

\* A caller calls a method: its first withClient starts with new Client().
Invoke(caller, op) ==
    LET id == Cardinality(DOMAIN sessions) + 1
    IN /\ run[caller].todo = <<>>
       /\ id + Invocations(op) - 1 <= MaxSessions
       /\ sessions' = SetKey(sessions, id, [owner |-> id, state |-> "new", users |-> {}])
       /\ run' = [run EXCEPT ![caller] =
                    [NoCall EXCEPT !.op = op, !.order = id, !.client = id,
                                   !.todo = IF Invocations(op) = 2
                                            THEN Stages(kind) \o <<"new">> \o Stages(kind)
                                            ELSE Stages(kind)]]
       /\ UNCHANGED <<kind, files, dirs, meta, tempLinks, issued, now, last, disks, defaultDisk, stores>>

\* The next stage of a call ends, well (ok) or by throwing. After a throw
\* the call rejects, except that append goes on to its put when its get
\* threw.
Advance(caller, ok) ==
    LET call == run[caller]
        stage == Head(call.todo)
        rest == Tail(call.todo)
        id == Cardinality(DOMAIN sessions) + 1
        caught == call.op = "append" /\ \E i \in DOMAIN rest : rest[i] = "new"
        put == SubSeq(rest, CHOOSE i \in DOMAIN rest : rest[i] = "new", Len(rest))
    IN /\ call.todo # <<>>
       /\ IF stage = "new"
          THEN /\ ok
               /\ sessions' = SetKey(sessions, id,
                                     [owner |-> call.order, state |-> "new", users |-> {}])
               /\ run' = [run EXCEPT ![caller] =
                            [call EXCEPT !.client = id, !.todo = rest]]
          ELSE /\ sessions' = [sessions EXCEPT ![call.client] =
                                 [@ EXCEPT !.state = withClient(kind, stage, ok),
                                           !.users = @ \cup {call.order}]]
               /\ run' = [run EXCEPT ![caller] =
                            IF ok THEN [call EXCEPT !.todo = rest]
                            ELSE IF caught THEN [call EXCEPT !.todo = put]
                            ELSE [call EXCEPT !.todo = <<>>,
                                              !.status = "TransportFailure"]]
       /\ UNCHANGED <<kind, files, dirs, meta, tempLinks, issued, now, last, disks, defaultDisk, stores>>

----------------------------------------------------------------------------
(* SpecSessions: callers of one FTP or SFTP driver, whose calls interleave *)

InitSessions ==
    /\ kind \in {"ftp", "sftp"}
    /\ files = EmptyFn
    /\ dirs = {}
    /\ meta = EmptyFn
    /\ tempLinks = EmptyFn
    /\ issued = EmptyFn
    /\ now = 0
    /\ last = NoOp
    /\ run = [caller \in Callers |-> NoCall]
    /\ sessions = EmptyFn
    /\ disks = EmptyFn
    /\ defaultDisk = "default"
    /\ stores = EmptyFn

NextSessions ==
    \/ \E caller \in Callers, op \in {"get", "copy", "append"} : Invoke(caller, op)
    \/ \E caller \in Callers, ok \in BOOLEAN : Advance(caller, ok)

SpecSessions == InitSessions /\ [][NextSessions]_vars

\* C15: every FTP and SFTP call opens its own session and closes it on every
\* way out (return, failed login, failed change of directory, failed
\* command): a session that is not closed belongs to the withClient that is
\* still running in some call, and no session is used by a call other than
\* the one that opened it.
C15_SessionsClosed ==
    \A id \in DOMAIN sessions :
        /\ sessions[id].state # "closed"
             => \E caller \in Callers :
                   run[caller].todo # <<>> /\ run[caller].client = id
        /\ sessions[id].users \subseteq {sessions[id].owner}

\* Both callers have called; one call was rejected after a failed stage,
\* every call has ended, and each of the clients made was used and is closed.
C15_Witness ==
    /\ \A caller \in Callers : run[caller].op # "none" /\ run[caller].todo = <<>>
    /\ \E caller \in Callers : run[caller].status = "TransportFailure"
    /\ Cardinality(DOMAIN sessions) >= 3
    /\ \A id \in DOMAIN sessions :
          sessions[id].state = "closed" /\ sessions[id].users # {}

----------------------------------------------------------------------------
(* Claims about missing files, on the four disks of Spec *)

\* C21: get(p), delete(p), copy(p, q) and move(p, q) with p absent fail with
\* a not-found error and leave the backend unchanged, on every backend alike;
\* none of them reports success.
C21_AbsentIsNotFound ==
    [][(/\ last'.op \in {"get", "delete", "copy", "move"}
        /\ last'.via = "direct"
        /\ ~Driver_exists(kind, D, last'.path).flag)
         => (last'.status = "NotFound" /\ DNext = D)
      ]_vars


\* C22: exists(p) does not change the backend, and called again with no
\* write in between it returns the same boolean.
C22_ExistsIdempotent ==
    [][last'.op = "exists"
         => /\ DNext = D
            /\ (last.op = "exists" /\ last.path = last'.path
                  /\ last.status = "ok" /\ last'.status = "ok")
                 => last'.flag = last.flag
      ]_vars

----------------------------------------------------------------------------
(* Temporary URLs through FileStorageService.getTemporaryUrl, on a disk of
   any driver. An option that is not given is "". A result carries the
   number of signing calls (getSignedUrl) the call made. *)

\* A getTemporaryUrl that resolved, having made signed signing calls.
Url(status, signed) == [status |-> status, signed |-> signed]

\* An S3 getTemporaryUrl that signs whatever the options are.
S3_getTemporaryUrl_Ignoring(ip, deviceId) == Url("ok", 1)

\* S3StorageDriver.getTemporaryUrl: throws when options.ip or
\* options.deviceId is set, else signs a GetObject request.
S3_getTemporaryUrl(ip, deviceId) ==
    IF ip # "" \/ deviceId # "" THEN Url("Unsupported", 0) ELSE Url("ok", 1)

\* A service method that answers with the plain path when the driver has
\* no getTemporaryUrl.
Service_getTemporaryUrl_Fallback(k, ip, deviceId) ==
    IF k = "s3" THEN S3_getTemporaryUrl(ip, deviceId) ELSE Url("ok", 0)

\* FileStorageService.getTemporaryUrl on a disk that is not local: the
\* driver's method when it has one (S3 signs; Buffer, FTP, SFTP, Dropbox and
\* Google Drive throw), else the service throws (the scoped wrapper has no
\* such method).
Service_getTemporaryUrl(k, ip, deviceId) ==
    IF k = "s3" THEN S3_getTemporaryUrl(ip, deviceId) ELSE Url("Unsupported", 0)

\* A call of FileStorageService.getTemporaryUrl; on the local disk it issues
\* a token.
ServiceGetTemporaryUrl(relPath, expiresIn, ip, deviceId) ==
    IF kind = "local" THEN GetTemporaryUrl(relPath, expiresIn, ip, deviceId)
    ELSE LET r == Service_getTemporaryUrl(kind, ip, deviceId)
         IN /\ last' = [NoOp EXCEPT !.op = "getTemporaryUrl", !.path = relPath,
                                    !.opts = [expiresIn |-> expiresIn, ip |-> ip,
                                              deviceId |-> deviceId],
                                    !.status = r.status, !.count = r.signed,
                                    !.at = now]
            /\ UNCHANGED <<kind, files, dirs, meta, tempLinks, issued, now, run, sessions, disks, defaultDisk, stores>>

\* The drivers a disk can be configured with.
AllKinds == {"buffer", "local", "s3", "ftp", "sftp", "dropbox", "gdrive", "scoped"}

InitUrls ==
    /\ kind \in AllKinds
    /\ files = EmptyFn
    /\ dirs = {}
    /\ meta = EmptyFn
    /\ tempLinks = EmptyFn
    /\ issued = EmptyFn
    /\ now = 0
    /\ last = NoOp
    /\ run = [caller \in Callers |-> NoCall]
    /\ sessions = EmptyFn
    /\ disks = EmptyFn
    /\ defaultDisk = "default"
    /\ stores = EmptyFn

NextUrls ==
    \/ \E p \in Paths, e \in {0, 1}, a \in {"", "ip1"}, d \in {"", "d1"} :
          ServiceGetTemporaryUrl(p, e, a, d)
    \/ Tick

SpecUrls == InitUrls /\ [][NextUrls]_vars

\* C23: S3 getTemporaryUrl called with an ip or a deviceId option rejects,
\* and makes no signing call for that request.
C23_S3RejectsConstraints ==
    (kind = "s3" /\ last.op = "getTemporaryUrl"
        /\ (last.opts.ip # "" \/ last.opts.deviceId # ""))
    => (last.status # "ok" /\ last.count = 0)

\* An S3 getTemporaryUrl with a deviceId option alone was rejected.
C23_Witness ==
    /\ kind = "s3" /\ last.op = "getTemporaryUrl"
    /\ last.opts.ip = "" /\ last.opts.deviceId = "d1"
    /\ last.status = "Unsupported"

\* C24: getTemporaryUrl on an FTP, SFTP, Dropbox, Google Drive or Buffer
\* disk, and on a disk whose driver has no such method, rejects as not
\* supported whatever its arguments, creating no token and changing nothing
\* that is stored.
C24_UnsupportedUrl ==
    [][(last'.op = "getTemporaryUrl"
          /\ kind \in {"ftp", "sftp", "dropbox", "gdrive", "buffer", "scoped"})
         => /\ last'.status = "Unsupported"
            /\ last'.count = 0
            /\ tempLinks' = tempLinks
            /\ DNext = D
      ]_vars

\* getTemporaryUrl without options was rejected on a Dropbox disk.
C24_Witness ==
    /\ kind = "dropbox" /\ last.op = "getTemporaryUrl"
    /\ last.opts.ip = "" /\ last.opts.deviceId = ""
    /\ last.status = "Unsupported" /\ tempLinks = EmptyFn

----------------------------------------------------------------------------
(* SpecService: timed and plain writes, deletes and sweeps through
   FileStorageService on a disk of any driver, the Buffer driver, which has
   neither putTimed nor deleteExpiredFiles, included *)

SpecService == Init /\ [][NextTimed]_vars

C26_TimedFileSwept ==
    [][(/\ last.op = "putTimed" /\ last.status = "ok"
        /\ ~last.opts.hasDate /\ last.opts.ttl > 0
        /\ now > last.at + last.opts.ttl * MsPerSecond
        /\ last'.op = "deleteExpiredFiles" /\ last'.status = "ok"
        /\ now' = now)
         => /\ ~Driver_exists(kind, DNext, last.path).flag
            /\ last'.count >= 1
      ]_vars

----------------------------------------------------------------------------
(* Listings *)

\* p lies under the directory dir.
Under(dir, p) == dir = <<>> \/ startsWith(p, dir \o <<"/">>)

\* p as a path relative to the directory dir it lies under.
RelativeTo(dir, p) == IF dir = <<>> THEN p ELSE SubSeq(p, Len(dir) + 2, Len(p))

\* What a listing of dir is to return: the files stored under dir, the
\* immediate children alone unless recursive, as paths relative to dir.
Listing(k, s, dir, recursive) ==
    {RelativeTo(dir, p) :
        p \in {q \in Paths : /\ Driver_exists(k, s, q).flag
                             /\ Under(dir, q)
                             /\ recursive \/ \A i \in DOMAIN RelativeTo(dir, q) :
                                               RelativeTo(dir, q)[i] # "/"}}

\* C27: listFiles(dir, recursive) returns exactly the files stored under dir
\* (the immediate children alone when recursive is false), each as a path
\* relative to dir, so that every returned path names an existing file.
C27_ListFilesExact ==
    [][(last'.op = "listFiles" /\ last'.via = "direct" /\ last'.status = "ok")
         => \E recursive \in BOOLEAN :
               last'.list = Listing(kind, D, last'.path, recursive)
      ]_vars

----------------------------------------------------------------------------
(* The disk registry of FileStorageService. A configuration names a default
   disk and gives each disk name a disk configuration; the constructor
   builds one driver per name. A driver is a record that carries the name
   it was built for, so that the drivers of two names are two instances.
   stores holds what each backend holds: the memory of each Buffer driver
   and the directory tree under each root of the Local drivers, two Local
   drivers of one root sharing a tree. An absent disk name is "". *)

DiskNames == {"main", "tmp"}

RootCwd == ""
RootData == "/data"

\* The disk configurations: a Buffer disk, a Local disk rooted at the
\* working directory or at /data, and a scoped disk with the prefix 'x'
\* that is to wrap the disk named wraps.
DiskConfigs ==
    {[driver |-> "buffer", root |-> "", prefix |-> <<>>, wraps |-> ""]}
    \cup {[driver |-> "local", root |-> r, prefix |-> <<>>, wraps |-> ""] :
             r \in {RootCwd, RootData}}
    \cup {[driver |-> "scoped", root |-> "", prefix |-> ScopedPrefix,
           wraps |-> w] : w \in DiskNames}

\* The configurations of the service: a default disk name, and a disk
\* configuration for some of the names, no scoped disk wrapping itself.
StorageConfigs ==
    {[default |-> d, disks |-> f] :
        d \in DiskNames,
        f \in UNION {{g \in [S -> DiskConfigs] : \A n \in S : g[n].wraps # n} :
                        S \in SUBSET DiskNames}}

\* new XStorageDriver(diskConfig) for the disk called name; for 'scoped', a
\* ScopedStorageDriver around a new LocalStorageDriver with root ''.
NewDriver(name, diskConfig) ==
    CASE diskConfig.driver = "buffer" ->
             [of |-> name, driver |-> "buffer", prefix |-> <<>>,
              inner |-> "buffer", store |-> <<"mem", name>>]
      [] diskConfig.driver = "local" ->
             [of |-> name, driver |-> "local", prefix |-> <<>>,
              inner |-> "local", store |-> <<"fs", diskConfig.root>>]
      [] diskConfig.driver = "scoped" ->
             [of |-> name, driver |-> "scoped", prefix |-> diskConfig.prefix,
              inner |-> "local", store |-> <<"fs", RootCwd>>]

\* The constructor's loop over Object.entries(config.disks).
Construct(config) ==
    [name \in DOMAIN config.disks |->
        [name |-> name, driver |-> NewDriver(name, config.disks[name]),
         config |-> config.disks[name]]]

NoDriver == [of |-> "", driver |-> "none", prefix |-> <<>>, inner |-> "none", store |-> <<>>]

\* A disk lookup that answers with the default disk for a name it does not know.
disk_Lenient(ds, dflt, name) ==
    LET diskName == IF name # "" /\ name \in DOMAIN ds THEN name ELSE dflt
    IN IF diskName \in DOMAIN ds
       THEN [status |-> "ok", driver |-> ds[diskName].driver]
       ELSE [status |-> "DiskNotFound", driver |-> NoDriver]

\* FileStorageService.disk(name): name || this.defaultDisk is looked up in
\* this.disks; 'Disk not found' when it is not there.
disk(ds, dflt, name) ==
    LET diskName == IF name # "" THEN name ELSE dflt
    IN IF diskName \in DOMAIN ds
       THEN [status |-> "ok", driver |-> ds[diskName].driver]
       ELSE [status |-> "DiskNotFound", driver |-> NoDriver]

\* A method of a driver: a ScopedStorageDriver hands the scoped path to the
\* driver it holds.
Instance_call(driver, st, op, p, c) ==
    LET q == IF driver.driver = "scoped" THEN scoped(driver.prefix, p) ELSE p
        s == st[driver.store]
    IN CASE op = "put" -> Driver_put(driver.inner, s, q, c)
         [] op = "get" -> Driver_get(driver.inner, s, q)
         [] op = "delete" -> Driver_delete(driver.inner, s, q)

\* service.disk(name) is called.
DiskLookup(name) ==
    LET d == disk(disks, defaultDisk, name)
    IN /\ last' = [NoOp EXCEPT !.op = "disk", !.disk = name, !.status = d.status,
                               !.result = d.driver]
       /\ UNCHANGED <<kind, files, dirs, meta, tempLinks, issued, now, run, sessions,
                      disks, defaultDisk, stores>>

\* service.disk(name).op(p, c); with no name, the convenience method
\* service.op(p, c), which is this.disk().op(p, c).
ServiceCall(name, op, p, c) ==
    LET d == disk(disks, defaultDisk, name)
        r == Instance_call(d.driver, stores, op, p, c)
    IN /\ IF d.status = "ok"
          THEN /\ stores' = [stores EXCEPT ![d.driver.store] = r.st]
               /\ last' = [NoOp EXCEPT !.op = op, !.disk = name, !.path = p,
                                       !.input = c, !.status = r.status,
                                       !.bytes = r.bytes, !.result = d.driver]
          ELSE /\ stores' = stores
               /\ last' = [NoOp EXCEPT !.op = op, !.disk = name, !.path = p,
                                       !.input = c, !.status = d.status,
                                       !.result = d.driver]
       /\ UNCHANGED <<kind, files, dirs, meta, tempLinks, issued, now, run, sessions,
                      disks, defaultDisk>>

EmptyStore == [files |-> EmptyFn, dirs |-> {}, meta |-> EmptyFn]

StoreIds == {<<"fs", RootCwd>>, <<"fs", RootData>>} \cup {<<"mem", n>> : n \in DiskNames}

InitRegistry ==
    /\ kind = "service"
    /\ files = EmptyFn
    /\ dirs = {}
    /\ meta = EmptyFn
    /\ tempLinks = EmptyFn
    /\ issued = EmptyFn
    /\ now = 0
    /\ last = NoOp
    /\ run = [caller \in Callers |-> NoCall]
    /\ sessions = EmptyFn
    /\ \E config \in StorageConfigs :
          /\ disks = Construct(config)
          /\ defaultDisk = config.default
    /\ stores = [id \in StoreIds |-> EmptyStore]

\* The names callers pass: none, the two of the configurations, and one
\* that no configuration has.
CalledNames == {""} \cup DiskNames \cup {"other"}

NextRegistry ==
    \/ \E name \in CalledNames : DiskLookup(name)
    \/ \E name \in CalledNames : ServiceCall(name, "put", PathA, TextE)
    \/ \E name \in CalledNames, p \in Paths : ServiceCall(name, "get", p, NoContent)
    \/ \E name \in CalledNames, p \in Paths : ServiceCall(name, "delete", p, NoContent)

SpecRegistry == InitRegistry /\ [][NextRegistry]_vars

\* C28: disk(name) returns for every configured name the one driver built
\* for it, disk() the driver of the configured default disk, disk(name) for
\* an unconfigured name raises disk-not-found; no operation changes the
\* mapping, and the convenience methods act on the default disk's driver
\* and on no other backend.
C28_Registry ==
    [][/\ disks' = disks /\ defaultDisk' = defaultDisk
       /\ \A a, b \in DOMAIN disks : disks[a].driver = disks[b].driver => a = b
       /\ (last'.disk # "" /\ last'.disk \in DOMAIN disks)
             => (last'.status # "DiskNotFound" /\ last'.result = disks[last'.disk].driver)
       /\ (last'.disk # "" /\ last'.disk \notin DOMAIN disks)
             => last'.status = "DiskNotFound"
       /\ (last'.disk = "" /\ defaultDisk \in DOMAIN disks)
             => /\ last'.status # "DiskNotFound"
                /\ last'.result = disks[defaultDisk].driver
                /\ \A id \in StoreIds :
                      id # disks[defaultDisk].driver.store => stores'[id] = stores[id]
                /\ last'.op = "put" =>
                      Instance_call(disks[defaultDisk].driver, stores', "get",
                                    last'.path, NoContent).bytes = BytesOf(last'.input)
      ]_vars

\* With the disk tmp as the default and both disks configured, put() without
\* a name stored a file that disk('tmp') holds and disk('main') does not.
C28_Witness ==
    /\ defaultDisk = "tmp" /\ DOMAIN disks = DiskNames
    /\ last.op = "put" /\ last.disk = "" /\ last.status = "ok"
    /\ last.result = disks["tmp"].driver
    /\ Instance_call(disks["tmp"].driver, stores, "get", PathA, NoContent).status = "ok"
    /\ Instance_call(disks["main"].driver, stores, "get", PathA, NoContent).status # "ok"

\* C29: a disk configured with the scoped driver delegates to the wrapped
\* driver its configuration refers to, with the prefix applied: content put
\* through the scoped disk at p is readable through the wrapped disk at
\* prefix/p.
C29_ScopedDelegates ==
    [][(/\ last'.op = "put" /\ last'.status = "ok"
        /\ last'.result.driver = "scoped"
        /\ disks[last'.result.of].config.wraps \in DOMAIN disks)
         => LET scopedDisk == disks[last'.result.of]
                wrapped == disks[scopedDisk.config.wraps].driver
                r == Instance_call(wrapped, stores', "get",
                                   scoped(scopedDisk.config.prefix, last'.path), NoContent)
            IN r.status = "ok" /\ r.bytes = BytesOf(last'.input)
      ]_vars

----------------------------------------------------------------------------
(* Uploads through FileUploadInterceptor.intercept, one file per step, to a
   disk whose configuration has no root (Buffer, S3). A filename generator
   is given by the name it returns for the file; NoName stands for a
   generator that is not set. *)

MaxUploads == 3

NoName == <<>>

\* The generator that takes the global generator before the per-upload one.
generateFilename_GlobalFirst(perUpload, global, originalname) ==
    IF global # NoName THEN global
    ELSE IF perUpload # NoName THEN perUpload
    ELSE originalname

\* intercept, '2. Generate filename': options.filenameGenerator, else
\* storage.config.filenameGenerator, else file.originalname.
generateFilename(perUpload, global, originalname) ==
    IF perUpload # NoName THEN perUpload
    ELSE IF global # NoName THEN global
    ELSE originalname

\* filename.includes('.') ? '.' + filename.split('.').pop() : ''
extOf(filename) ==
    LET dots == {i \in DOMAIN filename : filename[i] = "."}
    IN IF dots = {} THEN <<>>
       ELSE SubSeq(filename, CHOOSE i \in dots : \A j \in dots : j <= i, Len(filename))

\* ext ? filename.slice(0, -ext.length) : filename
baseOf(filename) == SubSeq(filename, 1, Len(filename) - Len(extOf(filename)))

Digits == <<"1", "2", "3", "4", "5", "6", "7", "8", "9">>

\* `${base}(${counter})${ext}`
withCounter(filename, counter) ==
    baseOf(filename) \o <<"(", Digits[counter], ")">> \o extOf(filename)

\* join(...[diskRoot, uploadDir, candidate].filter(Boolean)), no disk root
storagePathOf(uploadDir, candidate) ==
    IF uploadDir = <<>> THEN candidate ELSE uploadDir \o <<"/">> \o candidate

\* The loop `while (await disk.exists(storagePath))` entered with the given
\* candidate and counter: the candidate it leaves with.
RECURSIVE freeCandidate(_, _, _, _, _, _)
freeCandidate(k, s, uploadDir, filename, candidate, counter) ==
    IF Driver_exists(k, s, storagePathOf(uploadDir, candidate)).flag
    THEN freeCandidate(k, s, uploadDir, filename, withCounter(filename, counter), counter + 1)
    ELSE candidate

\* intercept stores one file: the name, the free candidate, the write.
Upload(perUpload, global, originalname, uploadDir) ==
    LET filename == generateFilename(perUpload, global, originalname)
        candidate == freeCandidate(kind, D, uploadDir, filename, filename, 1)
        storagePath == storagePathOf(uploadDir, candidate)
        r == Driver_put(kind, D, storagePath, TextE)
    IN /\ Cardinality(DOMAIN files) < MaxUploads
       /\ files' = r.st.files
       /\ dirs' = r.st.dirs
       /\ meta' = r.st.meta
       /\ last' = [NoOp EXCEPT !.op = "upload", !.path = storagePath, !.input = TextE,
                               !.status = r.status, !.at = now,
                               !.upload = [perUpload |-> perUpload, global |-> global,
                                           originalname |-> originalname,
                                           uploadDir |-> uploadDir,
                                           filename |-> candidate]]
       /\ UNCHANGED <<kind, tempLinks, issued, now, run, sessions, disks, defaultDisk, stores>>

UploadKinds == {"buffer", "s3"}

\* The names of the uploaded files, and what the generators return.
OriginalNames == {<<"a">>, <<"a", ".", "t">>}
PerUploadNames == {NoName, <<"p">>}
GlobalNames == {NoName, <<"g", ".", "t">>}

InitUpload == Init /\ kind \in UploadKinds

NextUpload ==
    \/ \E pu \in PerUploadNames, g \in GlobalNames, o \in OriginalNames,
          dir \in ListDirs : Upload(pu, g, o, dir)
    \/ \E p \in Paths : Delete("direct", p)

SpecUpload == InitUpload /\ [][NextUpload]_vars

----------------------------------------------------------------------------
(* Uploads await by await. intercept awaits disk.exists for each candidate
   and then awaits the write; the uploads of two requests interleave at
   these awaits. All files take the default filename logic and go to the
   root of the disk; the file of caller 1 holds 'é', that of the others the
   byte FF. *)

NoUploadCall == [pc |-> "idle", filename |-> NoName, candidate |-> NoName, counter |-> 1,
                 content |-> NoContent]

contentOf(caller) == IF caller = 1 THEN TextE ELSE ByteFF

\* A request with one file arrives: filename = file.originalname, the first
\* candidate is the filename, counter = 1.
UploadBegin(caller, originalname) ==
    /\ run[caller].pc = "idle"
    /\ Cardinality(DOMAIN files)
         + Cardinality({c \in Callers : run[c].pc # "idle"}) < MaxUploads
    /\ run' = [run EXCEPT ![caller] =
                 [pc |-> "exists", filename |-> generateFilename(NoName, NoName, originalname),
                  candidate |-> originalname, counter |-> 1,
                  content |-> contentOf(caller)]]
    /\ UNCHANGED <<kind, files, dirs, meta, tempLinks, issued, now, last, sessions,
                   disks, defaultDisk, stores>>

\* One turn of `while (await disk.exists(storagePath))`: the next candidate
\* when the path exists, else on to the write.
UploadExists(caller) ==
    LET call == run[caller] IN
    /\ call.pc = "exists"
    /\ run' = [run EXCEPT ![caller] =
                 IF Driver_exists(kind, D, storagePathOf(<<>>, call.candidate)).flag
                 THEN [call EXCEPT !.candidate = withCounter(call.filename, call.counter),
                                   !.counter = call.counter + 1]
                 ELSE [call EXCEPT !.pc = "put"]]
    /\ UNCHANGED <<kind, files, dirs, meta, tempLinks, issued, now, last, sessions,
                   disks, defaultDisk, stores>>

\* await disk.putStream(storagePath, ...) or disk.put(storagePath, ...)
UploadPut(caller) ==
    LET call == run[caller]
        storagePath == storagePathOf(<<>>, call.candidate)
        r == Driver_put(kind, D, storagePath, call.content)
    IN /\ call.pc = "put"
       /\ files' = r.st.files
       /\ dirs' = r.st.dirs
       /\ meta' = r.st.meta
       /\ last' = [NoOp EXCEPT !.op = "upload", !.path = storagePath,
                               !.input = call.content, !.status = r.status, !.at = now,
                               !.upload = [perUpload |-> NoName, global |-> NoName,
                                           originalname |-> call.filename,
                                           uploadDir |-> <<>>,
                                           filename |-> call.candidate]]
       /\ run' = [run EXCEPT ![caller] = NoUploadCall]
       /\ UNCHANGED <<kind, tempLinks, issued, now, sessions, disks, defaultDisk, stores>>

InitUploadSteps ==
    /\ kind \in UploadKinds
    /\ files = EmptyFn
    /\ dirs = {}
    /\ meta = EmptyFn
    /\ tempLinks = EmptyFn
    /\ issued = EmptyFn
    /\ now = 0
    /\ last = NoOp
    /\ run = [caller \in Callers |-> NoUploadCall]
    /\ sessions = EmptyFn
    /\ disks = EmptyFn
    /\ defaultDisk = "default"
    /\ stores = EmptyFn

NextUploadSteps ==
    \/ \E caller \in Callers, o \in OriginalNames : UploadBegin(caller, o)
    \/ \E caller \in Callers : UploadExists(caller)
    \/ \E caller \in Callers : UploadPut(caller)

SpecUploadSteps == InitUploadSteps /\ [][NextUploadSteps]_vars

\* C31: with the default filename logic an upload never overwrites an object
\* already on the disk: the path it writes does not exist when the write
\* happens, so that two uploads of files of one original name, one after the
\* other or at the same time, are stored under two different paths.
C31_UploadNeverOverwrites ==
    [][\A caller \in Callers :
          (run[caller].pc = "put" /\ run'[caller].pc = "idle")
          => ~Driver_exists(kind, D, storagePathOf(<<>>, run[caller].candidate)).flag
      ]_vars


\* C32: a sweep deletes an object only on account of an expiry of the
\* content now stored at its path: an object written or rewritten with
\* plain put, or re-created after a delete, and not touched since, is still
\* there after a sweep.
C32_SweepSparesPlainPut ==
    [][(/\ last.op = "put" /\ last.via = "direct" /\ last.status = "ok"
        /\ SweepStep)
         => /\ Driver_exists(kind, DNext, last.path).flag
            /\ Driver_get(kind, DNext, last.path).bytes = BytesOf(last.input)
      ]_vars

----------------------------------------------------------------------------
(* SpecIndex: on an FTP disk each caller makes one call, a putTimed of one of
   two paths or a deleteExpiredFiles, no request fails, and the requests of
   the calls interleave while time passes *)

InitIndex == Init /\ kind = "ftp"

NextIndex ==
    \/ \E caller \in Callers, p \in Paths :
          Begin(caller, "putTimed", p, NoPath, TextE, Ttl(1))
    \/ \E caller \in Callers :
          Begin(caller, "deleteExpiredFiles", NoPath, NoPath, NoContent, NoOpts)
    \/ \E caller \in Callers : Step(caller)
    \/ Tick

SpecIndex == InitIndex /\ [][NextIndex]_vars

\* C33: when putTimed calls for different paths, or a putTimed and a
\* deleteExpiredFiles, have run concurrently on one backend that keeps its
\* expiries in an index file and all of them have completed, the index holds
\* an expiry record for every object stored with an expiry and not deleted.
C33_IndexKeepsEveryRecord ==
    (/\ \A caller \in Callers : run[caller].op # "none" /\ run[caller].todo = <<>>
     /\ \A c1, c2 \in Callers :
           (c1 # c2 /\ run[c1].op = "putTimed" /\ run[c2].op = "putTimed")
           => run[c1].path # run[c2].path)
    => \A caller \in Callers :
          (/\ run[caller].op = "putTimed" /\ run[caller].status = "ok"
           /\ Driver_exists(kind, D, run[caller].path).flag)
          => Expiries(kind, D, Resolve(kind, run[caller].path)) # {}


\* C34: append and prepend treat the path as empty only when it is absent:
\* when the path held content and the call ran alone, the call has either
\* failed and left the content as it was, or stored the old content with
\* the addition.
C34_ReadFailureNotSwallowed ==
    \A caller \in Callers :
        (/\ run[caller].op \in {"append", "prepend"}
         /\ run[caller].todo = <<>>
         /\ \A other \in Callers \ {caller} : run[other].op = "none"
         /\ Driver_exists(kind, run[caller].before, run[caller].path).flag)
        => \/ run[caller].status # "ok" /\ D = run[caller].before
           \/ /\ run[caller].status = "ok"
              /\ D = Whole(kind, run[caller].before, now, run[caller])

----------------------------------------------------------------------------
(* SpecVisibility: puts, copies, deletes, reads and setVisibility on an S3 disk. The
   model keeps no ACL: the ACL of an object has no part in what get returns. *)

\* S3StorageDriver.setVisibility: a PutObject of the key with the new ACL
\* and Body ''.
S3_setVisibility(s, path, visibility) ==
    S3_put(s, path, [type |-> "string", data |-> <<>>])

SetVisibility(p, visibility) ==
    Commit("setVisibility", "direct", p, NoPath, NoContent,
           S3_setVisibility(D, p, visibility))

InitVisibility == Init /\ kind = "s3"

NextVisibility ==
    \/ \E p \in Paths, c \in Contents : Put("direct", p, c)
    \/ \E p \in Paths : Get("direct", p)
    \/ \E p \in Paths : Delete("direct", p)
    \/ \E p \in Paths : Exists("direct", p)
    \/ \E a \in Paths, b \in Paths : Copy("direct", a, b)
    \/ \E p \in Paths, v \in {"public", "private"} : SetVisibility(p, v)

SpecVisibility == InitVisibility /\ [][NextVisibility]_vars

\* C35: S3 setVisibility(p, v) changes only the visibility of p: get(p)
\* returns the same content after the call as before it.
C35_SetVisibilityKeepsContent ==
    [][(last'.op = "setVisibility" /\ last'.status = "ok")
         => /\ Driver_get(kind, DNext, last'.path).status
                 = Driver_get(kind, D, last'.path).status
            /\ Driver_get(kind, DNext, last'.path).bytes
                 = Driver_get(kind, D, last'.path).bytes
      ]_vars

\* ---------------------------------------------------------------------------
\* FTPStorageDriver.get, step by step (ftp.driver.ts 86-108).  The file on the
\* server is a sequence of chunks.  get creates a PassThrough, awaits
\* client.downloadTo(pass, remotePath), and only after that promise resolved
\* attaches the 'data' / 'end' / 'error' listeners that drain the stream.
\* While no listener is attached the stream holds what was written to it, up
\* to its high-water mark on the writable and on the readable side; a full
\* stream stops the transfer until somebody reads.
\* ---------------------------------------------------------------------------
HighWaterMark == 1

StreamCapacity == 2 * HighWaterMark

FileSizes == 1..(StreamCapacity + 1)

ChunksOf(size) == [i \in 1..size |-> i]

NoGetCall ==
    [pc |-> "idle", size |-> 0, remaining |-> 0, pass |-> <<>>,
     chunks |-> <<>>, status |-> "none"]

\* get is called on an existing file of `size` chunks: new PassThrough(),
\* then client.downloadTo(pass, remotePath) starts.
GetBegin(caller, size) ==
    /\ run[caller].pc = "idle"
    /\ run' = [run EXCEPT ![caller] =
                 [pc |-> "downloadTo", size |-> size, remaining |-> size,
                  pass |-> <<>>, chunks |-> <<>>, status |-> "none"]]
    /\ UNCHANGED <<kind, files, dirs, meta, tempLinks, issued, now, last,
                   sessions, disks, defaultDisk, stores>>

\* The transfer writes the next chunk into the stream; it can only do so
\* while the stream has room.
DownloadChunk(caller) ==
    LET call == run[caller] IN
    /\ call.pc = "downloadTo"
    /\ call.remaining > 0
    /\ Len(call.pass) < StreamCapacity
    /\ run' = [run EXCEPT ![caller] =
                 [call EXCEPT !.pass = Append(call.pass, call.size - call.remaining + 1),
                              !.remaining = call.remaining - 1]]
    /\ UNCHANGED <<kind, files, dirs, meta, tempLinks, issued, now, last,
                   sessions, disks, defaultDisk, stores>>

\* The whole file was written: downloadTo resolves and get goes on to
\* `new Promise(...)`, where pass.on('data'), pass.on('end') are attached.
DownloadResolves(caller) ==
    LET call == run[caller] IN
    /\ call.pc = "downloadTo"
    /\ call.remaining = 0
    /\ run' = [run EXCEPT ![caller] = [call EXCEPT !.pc = "listening"]]
    /\ UNCHANGED <<kind, files, dirs, meta, tempLinks, issued, now, last,
                   sessions, disks, defaultDisk, stores>>

\* The transfer stands still on a full stream; the client (new Client(), with
\* its default socket timeout) may give up on the idle data connection, and
\* the awaited downloadTo rejects.
DownloadTimesOut(caller) ==
    LET call == run[caller] IN
    /\ call.pc = "downloadTo"
    /\ call.remaining > 0
    /\ Len(call.pass) = StreamCapacity
    /\ run' = [run EXCEPT ![caller] =
                 [call EXCEPT !.pc = "rejected", !.status = "TransportFailure"]]
    /\ UNCHANGED <<kind, files, dirs, meta, tempLinks, issued, now, last,
                   sessions, disks, defaultDisk, stores>>

\* pass.on('data', (chunk) => chunks.push(chunk))
OnData(caller) ==
    LET call == run[caller] IN
    /\ call.pc = "listening"
    /\ call.pass # <<>>
    /\ run' = [run EXCEPT ![caller] =
                 [call EXCEPT !.chunks = Append(call.chunks, Head(call.pass)),
                              !.pass = Tail(call.pass)]]
    /\ UNCHANGED <<kind, files, dirs, meta, tempLinks, issued, now, last,
                   sessions, disks, defaultDisk, stores>>

\* pass.on('end', () => resolve(Buffer.concat(chunks)))
OnEnd(caller) ==
    LET call == run[caller] IN
    /\ call.pc = "listening"
    /\ call.pass = <<>>
    /\ run' = [run EXCEPT ![caller] =
                 [call EXCEPT !.pc = "resolved", !.status = "ok"]]
    /\ UNCHANGED <<kind, files, dirs, meta, tempLinks, issued, now, last,
                   sessions, disks, defaultDisk, stores>>

InitFtpGet ==
    /\ kind = "ftp"
    /\ files = EmptyFn
    /\ dirs = {}
    /\ meta = EmptyFn
    /\ tempLinks = EmptyFn
    /\ issued = EmptyFn
    /\ now = 0
    /\ last = NoOp
    /\ run = [caller \in Callers |-> NoGetCall]
    /\ sessions = EmptyFn
    /\ disks = EmptyFn
    /\ defaultDisk = "default"
    /\ stores = EmptyFn

GetStep(caller) ==
    \/ DownloadChunk(caller)
    \/ DownloadResolves(caller)
    \/ OnData(caller)
    \/ OnEnd(caller)

NextFtpGet ==
    \/ \E caller \in Callers, size \in FileSizes : GetBegin(caller, size)
    \/ \E caller \in Callers : DownloadChunk(caller)
    \/ \E caller \in Callers : DownloadResolves(caller)
    \/ \E caller \in Callers : DownloadTimesOut(caller)
    \/ \E caller \in Callers : OnData(caller)
    \/ \E caller \in Callers : OnEnd(caller)

SpecFtpGet == InitFtpGet /\ [][NextFtpGet]_vars

\* The event loop runs every callback that is ready: a transfer with room in
\* the stream goes on, a resolved promise is continued, an attached listener
\* is called.  The timeout is the client's choice and gets no fairness.
SpecFtpGetFair ==
    SpecFtpGet /\ \A caller \in Callers : WF_vars(GetStep(caller))

\* C36: FTP get on an existing file terminates and returns the complete
\* content, for every file size, files larger than the capacity of the stream
\* it downloads into included: every get that was started is at some later
\* time resolved with all the chunks of the file, in order.
C36_GetTerminatesComplete ==
    \A caller \in Callers :
        (run[caller].pc = "downloadTo")
            ~> (/\ run[caller].pc = "resolved"
                /\ run[caller].chunks = ChunksOf(run[caller].size))

\* ---------------------------------------------------------------------------
\* The token table over time (SpecTokens)
\* ---------------------------------------------------------------------------

\* The request passes the constraints the entry was issued with.
Passes(entry, req) ==
    /\ ~(entry.ip # "" /\ req.present /\ req.ip # entry.ip)
    /\ ~(entry.deviceId # "" /\ req.present /\ req.deviceId # entry.deviceId)

\* C37: an entry leaves the local token table only when a validation finds
\* it expired; a validation of an unexpired token, successful or refused for
\* its constraints, leaves the table as it was, and an unexpired token whose
\* constraints the request passes is validated successfully every time.
C37_EntryLeavesOnlyExpired ==
    [][/\ \A token \in DOMAIN tempLinks :
             token \notin DOMAIN tempLinks'
                => /\ last'.op = "validateTempToken"
                   /\ last'.token = token
                   /\ now > tempLinks[token].expiresAt
       /\ (/\ last'.op = "validateTempToken"
           /\ now' = now
           /\ last'.token \in DOMAIN tempLinks
           /\ now <= tempLinks[last'.token].expiresAt)
             => /\ tempLinks' = tempLinks
                /\ Passes(tempLinks[last'.token], last'.req)
                     => last'.result = Valid(tempLinks[last'.token].path)
                /\ ~Passes(tempLinks[last'.token], last'.req)
                     => last'.result = Invalid
      ]_vars

\* A token issued for one second was validated successfully at a later
\* instant than its issue and is still in the table.
C37_Witness ==
    /\ last.op = "validateTempToken"
    /\ last.token \in DOMAIN issued
    /\ last.at > issued[last.token].at
    /\ last.result = Valid(issued[last.token].path)
    /\ last.token \in DOMAIN tempLinks

\* ---------------------------------------------------------------------------
\* What a put leaves alone
\* ---------------------------------------------------------------------------

\* C38: put(p, c) changes only the object at p: for every other path q, a q
\* that differs from p only in its directory part included, exists(q) and
\* get(q) give the same result after the put as before it.
C38_PutChangesOnlyP ==
    [][Completed("put")
         => \A q \in DrivePaths \ {last'.path} :
               /\ (findFileId(files', q) # {}) = (findFileId(files, q) # {})
               /\ DriveGets(files', q) = DriveGets(files, q)
      ]_vars

\* ---------------------------------------------------------------------------
\* copy and move of an object onto itself
\* ---------------------------------------------------------------------------

\* C39: move(p, p) and copy(p, p) on an existing object leave p present with
\* its content unchanged.
C39_OntoItself ==
    [][(/\ last'.op \in {"copy", "move"}
        /\ last'.via = "direct"
        /\ last'.path = last'.dest
        /\ Driver_get(kind, D, last'.path).status = "ok")
         => /\ Driver_exists(kind, DNext, last'.path).flag
            /\ Driver_get(kind, DNext, last'.path).status = "ok"
            /\ Driver_get(kind, DNext, last'.path).bytes
                 = Driver_get(kind, D, last'.path).bytes
      ]_vars

\* ---------------------------------------------------------------------------
\* deleteDirectory on the disks without directories (Buffer, S3)
\* ---------------------------------------------------------------------------

\* for (const key of Array.from(this.files.keys()))
\*   if (key.startsWith(path)) this.files.delete(key);
Buffer_deleteDirectory(s, path) ==
    Ok([s EXCEPT !.files = DelKeys(@, {key \in DOMAIN s.files : startsWith(key, path)})])

\* const files = await this.listFiles(prefix);
\* for (const file of files) await this.delete(file);
S3_deleteDirectory(s, prefix) ==
    LET listed == S3_listFiles(s, prefix, TRUE).list IN
    Ok([s EXCEPT !.files = DelKeys(@, listed),
                 !.meta = DelKeys(@, listed \cap DOMAIN s.meta)])

Driver_deleteDirectory(k, s, path) ==
    CASE k = "buffer" -> Buffer_deleteDirectory(s, path)
      [] k = "s3" -> S3_deleteDirectory(s, path)

DeleteDirectory(d) ==
    Commit("deleteDirectory", "direct", d, NoPath, NoContent,
           Driver_deleteDirectory(kind, D, d))

\* The objects 'a/c' in directory a, 'ab' next to it, and 'x'.
PathAC == <<"a", "/", "c">>
PathAB == <<"a", "b">>
PathX == <<"x">>
DirectoryPaths == {PathAC, PathAB, PathX}

\* The directory a, named 'a' and 'a/'.
DirectoryNames == {<<"a">>, <<"a", "/">>}

\* The object q is located inside directory d.
InsideDirectory(d, q) ==
    startsWith(q, IF Last(d) = "/" THEN d ELSE d \o <<"/">>)

InitDirectory == Init /\ kind \in {"buffer", "s3"}

NextDirectory ==
    \/ \E p \in DirectoryPaths, c \in Contents : Put("direct", p, c)
    \/ \E p \in DirectoryPaths : Get("direct", p)
    \/ \E p \in DirectoryPaths : Delete("direct", p)
    \/ \E d \in DirectoryNames : DeleteDirectory(d)

SpecDirectory == InitDirectory /\ [][NextDirectory]_vars

\* C40: deleteDirectory(d) removes only objects located inside directory d:
\* an object whose path merely begins with the characters of d without being
\* inside it (for d = 'a', the object 'ab') is still present with unchanged
\* content afterwards.
C40_DeleteDirectoryInsideOnly ==
    [][(last'.op = "deleteDirectory" /\ last'.status = "ok")
         => \A q \in DOMAIN files :
               ~InsideDirectory(last'.path, q)
                  => /\ Driver_exists(kind, DNext, q).flag
                     /\ Driver_get(kind, DNext, q).status = "ok"
                     /\ Driver_get(kind, DNext, q).bytes = Driver_get(kind, D, q).bytes
      ]_vars

====
